---- MODULE Spec2Model ----
(***************************************************************************)
(* Changelog CI: the grouping and rendering of change records, and the     *)
(* run that fetches, renders and publishes them.                           *)
(*                                                                         *)
(* The repository holds three revisions of the renderer:                   *)
(*   "builders"      src/scripts/builders.py (builder classes, lru_cache)  *)
(*   "scripts_main"  src/scripts/main.py     (parse_changelog(file_type,   *)
(*                                             version, changes))          *)
(*   "main"          src/main.py             (parse_changelog(version,     *)
(*                                             changes), Markdown only)    *)
(* A behaviour is a run of one revision (variable impl).                   *)
(*                                                                         *)
(* A Python str is a sequence of one-character strings, so that len(),     *)
(* slicing and concatenation are computed as the code computes them.       *)
(***************************************************************************)
EXTENDS Integers, Sequences, FiniteSets, TLC

VARIABLES
    impl,                       \* the revision that runs
    changelog_type,             \* config.changelog_type
    group_config,               \* config.group_config
    include_unlabeled_changes,  \* config.include_unlabeled_changes
    changelog_file_type,        \* config.changelog_file_type
    commit_changelog,           \* config.commit_changelog
    comment_changelog,          \* config.comment_changelog
    token,                      \* whether a GitHub token was given
    event_name,                 \* GITHUB_EVENT_NAME
    pull_request_title,         \* the title in the event payload
    release_version,            \* self.release_version
    change_list,                \* self.change_list / the list object `changes`
    parse_cache,                \* the lru_cache of parse_changelog (builders)
    last_call,                  \* the latest parse_changelog call: input and result
    prev_call,                  \* the parse_changelog call before it
    pc,                         \* where run() / build() stands
    response,                   \* what the change source answered
    rendered,                   \* run()'s string_data: the configured file type
    rendered_markdown,          \* run()'s markdown_string_data
    changelog_file,             \* the content of the changelog file
    published,                  \* the publisher operations invoked, in order
    reported,                   \* the diagnostics printed
    builds,                     \* number of build() calls made
    env,                        \* the inputs Configuration.create is given
    config_file,                \* what the file at INPUT_CONFIG_FILE holds
    user_config,                \* what get_user_config returned
    created,                    \* the Configuration that create returned
    DEFAULT_GROUP_CONFIG,       \* the list object the default group_config names
    instances                   \* the configurations constructed in this process

\* the configuration a run works with and its environment
given == <<impl, changelog_type, group_config, include_unlabeled_changes,
           changelog_file_type, commit_changelog, comment_changelog, token,
           event_name, pull_request_title>>

\* fixed while a run goes on: what it was given, and how it was configured
static == <<given, env, config_file, user_config, created,
            DEFAULT_GROUP_CONFIG, instances>>

\* the state of a run
running == <<pc, response, rendered, rendered_markdown, changelog_file,
             published, reported, builds>>

vars == <<static, release_version, change_list, parse_cache, last_call,
          prev_call, running>>

----------------------------------------------------------------------------
(* Bounds *)

MaxRecords == 2     \* longest fetched change list
MaxRules == 2       \* longest group_config
MaxFetched == 2     \* most items in a response of the change source
MaxBuilds == 2      \* build() calls on one builder
MaxConstructions == 3   \* most configurations constructed in one process
MaxWrites == 3      \* writes of the changelog file, one per run

----------------------------------------------------------------------------
(* Constants of the program *)

PULL_REQUEST == "pull_request"
COMMIT_MESSAGE == "commit_message"
MARKDOWN_FILE == "md"
RESTRUCTUREDTEXT_FILE == "rst"

WORKFLOW_DISPATCH_EVENT == "workflow_dispatch"
PULL_REQUEST_EVENT == "pull_request"

FileTypes == {MARKDOWN_FILE, RESTRUCTUREDTEXT_FILE}
Impls == {"builders", "scripts_main", "main"}

header_prefix == <<"V","e","r","s","i","o","n",":">>
unlabeled_group_title == <<"O","t","h","e","r"," ","C","h","a","n","g","e","s">>
\* the release versions a run can resolve: the release_version input, and
\* the version_regex match in the pull request title
InputVersion == <<"1",".","2",".","0">>
TitleVersion == <<"2",".","0",".","0">>
NoVersion == <<>>

\* the character U+0060 of the RestructuredText link template (the grave
\* accent cannot be written inside a TLA+ string)
BACKQUOTE == "BACKQUOTE"

NoCall == [none |-> TRUE]

----------------------------------------------------------------------------
(* Python primitives *)

Digit(d) ==
    CASE d = 0 -> "0" [] d = 1 -> "1" [] d = 2 -> "2" [] d = 3 -> "3"
      [] d = 4 -> "4" [] d = 5 -> "5" [] d = 6 -> "6" [] d = 7 -> "7"
      [] d = 8 -> "8" [] d = 9 -> "9"

RECURSIVE FormatInt(_)
\* str.format of a non-negative int: its decimal digits
FormatInt(n) ==
    IF n < 10 THEN <<Digit(n)>>
    ELSE FormatInt(n \div 10) \o <<Digit(n % 10)>>

\* c * n for a one-character string c
Repeat(c, n) == [i \in 1..n |-> c]

\* s[:n]
Slice(s, n) == SubSeq(s, 1, IF Len(s) < n THEN Len(s) ELSE n)

\* a remove that leaves the list as it is
list_remove_keeps(l, x) == l

\* l.remove(x): drops the first element equal to x
list_remove(l, x) ==
    IF \E i \in 1..Len(l) : l[i] = x
    THEN LET k == CHOOSE i \in 1..Len(l) :
                      /\ l[i] = x
                      /\ \A j \in 1..(i-1) : l[j] # x
         IN SubSeq(l, 1, k-1) \o SubSeq(l, k+1, Len(l))
    ELSE l

\* any(label in pull_request["labels"] for label in config["labels"])
LabelMatches(pull_request, config) ==
    \E label \in config.labels : label \in pull_request.labels

----------------------------------------------------------------------------
(* Python values, as a configuration file and the inputs can hold them: a  *)
(* value carries its type t and, except None, its content v.  A dict is a  *)
(* function on its keys.                                                   *)

None == [t |-> "None"]
Py(type, content) == [t |-> type, v |-> content]

\* bool(value): the truth value `not value` negates
truthy(value) ==
    CASE value.t = "None" -> FALSE
      [] value.t = "bool" -> value.v
      [] value.t = "int"  -> value.v # 0
      [] value.t = "str"  -> Len(value.v) > 0
      [] value.t = "list" -> Len(value.v) > 0
      [] value.t = "dict" -> DOMAIN value.v # {}

\* isinstance(value, str)
isinstance_str(value) == value.t = "str"

\* dict.get(key)
dict_get(d, key) == IF key \in DOMAIN d THEN d[key] ELSE None

\* s.endswith(suffix)
endswith(s, suffix) ==
    /\ Len(suffix) <= Len(s)
    /\ SubSeq(s, Len(s) - Len(suffix) + 1, Len(s)) = suffix

\* a run whose configuration is given directly: Configuration.create is
\* not looked at
ConfigurationGiven ==
    /\ env = <<>>
    /\ config_file = [kind |-> "none"]
    /\ user_config = <<>>
    /\ created = <<>>
    /\ DEFAULT_GROUP_CONFIG = <<>>
    /\ instances = <<>>

----------------------------------------------------------------------------
(* src/scripts/builders.py *)

\* header = f"{self.config.header_prefix} {self.release_version}"
header(version) == header_prefix \o <<" ">> \o version

PullRequestChangelogBuilder_get_changelog_line(file_type, item) ==
    IF file_type = MARKDOWN_FILE
    THEN <<"*"," ","[","#">> \o FormatInt(item.number) \o <<"]","(">> \o item.url
             \o <<")",":"," ">> \o item.title \o <<"\n">>
    ELSE <<"*"," ",BACKQUOTE,"#">> \o FormatInt(item.number) \o <<" ","<">> \o item.url
             \o <<">",BACKQUOTE,"_","_",":"," ">> \o item.title \o <<"\n">>

CommitMessageChangelogBuilder_get_changelog_line(file_type, item) ==
    IF file_type = MARKDOWN_FILE
    THEN <<"*"," ","[">> \o Slice(item.sha, 7) \o <<"]","(">> \o item.url
             \o <<")",":"," ">> \o item.message \o <<"\n">>
    ELSE <<"*"," ",BACKQUOTE>> \o Slice(item.sha, 7) \o <<" ","<">> \o item.url
             \o <<">",BACKQUOTE,"_","_",":"," ">> \o item.message \o <<"\n">>

\* the document header, builders.py 161-164
builders_document_header(file_type, version) ==
    IF file_type = MARKDOWN_FILE
    THEN <<"#"," ">> \o header(version) \o <<"\n","\n">>
    ELSE header(version) \o <<"\n">> \o Repeat("=", Len(header(version)))
             \o <<"\n","\n">>

\* the heading of a rule's group, builders.py 192-197
builders_group_heading(file_type, config) ==
    IF file_type = MARKDOWN_FILE
    THEN <<"\n","#","#","#","#"," ">> \o config.title \o <<"\n","\n">>
    ELSE <<"\n">> \o config.title \o <<"\n"," ">>
             \o Repeat("-", Len(config.title)) \o <<"\n","\n">>

\* the heading of the unlabeled group, builders.py 203-211
builders_unlabeled_heading(file_type) ==
    IF file_type = MARKDOWN_FILE
    THEN <<"\n","#","#","#","#"," ">> \o unlabeled_group_title \o <<"\n","\n">>
    ELSE <<"\n">> \o unlabeled_group_title \o <<"\n">>
             \o Repeat("-", Len(unlabeled_group_title)) \o <<"\n","\n">>

RECURSIVE builders_join_lines(_, _, _)
\* "".join([self._get_changelog_line(file_type, item) for item in new_changes])
builders_join_lines(file_type, new_changes, i) ==
    IF i > Len(new_changes) THEN <<>>
    ELSE PullRequestChangelogBuilder_get_changelog_line(file_type, new_changes[i])
             \o builders_join_lines(file_type, new_changes, i + 1)

RECURSIVE builders_for_pull_request_prepends(_, _, _, _, _, _)
\* the loop putting each matched line before the lines gathered so far
builders_for_pull_request_prepends(file_type, config, pull_request_list, i, items_string, new_changes) ==
    IF i > Len(pull_request_list)
    THEN [items_string |-> items_string, new_changes |-> new_changes]
    ELSE LET pull_request == pull_request_list[i] IN
         IF LabelMatches(pull_request, config)
         THEN builders_for_pull_request_prepends(
                  file_type, config, pull_request_list, i + 1,
                  PullRequestChangelogBuilder_get_changelog_line(
                      file_type, pull_request) \o items_string,
                  list_remove(new_changes, pull_request))
         ELSE builders_for_pull_request_prepends(
                  file_type, config, pull_request_list, i + 1,
                  items_string, new_changes)

RECURSIVE builders_for_pull_request(_, _, _, _, _, _)
\* for pull_request in pull_request_list (a snapshot of new_changes), 176-189
builders_for_pull_request(file_type, config, pull_request_list, i, items_string, new_changes) ==
    IF i > Len(pull_request_list)
    THEN [items_string |-> items_string, new_changes |-> new_changes]
    ELSE LET pull_request == pull_request_list[i] IN
         IF LabelMatches(pull_request, config)
         THEN builders_for_pull_request(
                  file_type, config, pull_request_list, i + 1,
                  items_string \o PullRequestChangelogBuilder_get_changelog_line(
                                      file_type, pull_request),
                  list_remove(new_changes, pull_request))
         ELSE builders_for_pull_request(
                  file_type, config, pull_request_list, i + 1,
                  items_string, new_changes)

RECURSIVE builders_for_config_heads_empty_groups(_, _, _, _, _)
\* the loop emitting the heading of a rule also when no record matched it
builders_for_config_heads_empty_groups(file_type, rules, k, changelog_string, new_changes) ==
    IF k > Len(rules) \/ Len(new_changes) = 0
    THEN [changelog_string |-> changelog_string, new_changes |-> new_changes]
    ELSE LET r == builders_for_pull_request(file_type, rules[k], new_changes, 1,
                                            <<>>, new_changes)
         IN builders_for_config_heads_empty_groups(
                file_type, rules, k + 1,
                changelog_string \o builders_group_heading(file_type, rules[k])
                    \o r.items_string,
                r.new_changes)

RECURSIVE builders_for_config_breaks_early(_, _, _, _, _)
\* the loop leaving when one record remains
builders_for_config_breaks_early(file_type, rules, k, changelog_string, new_changes) ==
    IF k > Len(rules) \/ Len(new_changes) <= 1
    THEN [changelog_string |-> changelog_string, new_changes |-> new_changes]
    ELSE LET r == builders_for_pull_request(file_type, rules[k], new_changes, 1,
                                            <<>>, new_changes)
         IN builders_for_config_breaks_early(
                file_type, rules, k + 1,
                IF r.items_string # <<>>
                THEN changelog_string \o builders_group_heading(file_type, rules[k])
                         \o r.items_string
                ELSE changelog_string,
                r.new_changes)

RECURSIVE builders_for_config(_, _, _, _, _)
\* for config in group_config, 169-198
builders_for_config(file_type, rules, k, changelog_string, new_changes) ==
    IF k > Len(rules) \/ Len(new_changes) = 0
    THEN [changelog_string |-> changelog_string, new_changes |-> new_changes]
    ELSE LET r == builders_for_pull_request(file_type, rules[k], new_changes, 1,
                                            <<>>, new_changes)
         IN builders_for_config(
                file_type, rules, k + 1,
                IF r.items_string # <<>>
                THEN changelog_string \o builders_group_heading(file_type, rules[k])
                         \o r.items_string
                ELSE changelog_string,
                r.new_changes)

\* parse_changelog taking the grouping branch also when group_config is empty
parse_changelog_always_groups(file_type, version, changes, rules, unlabeled) ==
    LET g == builders_for_config(file_type, rules, 1,
                                 builders_document_header(file_type, version), changes)
    IN IF g.new_changes # <<>> /\ unlabeled
       THEN g.changelog_string \o builders_unlabeled_heading(file_type)
                \o builders_join_lines(file_type, g.new_changes, 1)
       ELSE g.changelog_string

\* parse_changelog emitting the unlabeled group whatever
\* include_unlabeled_changes says
parse_changelog_ignores_flag(file_type, version, changes, rules, unlabeled) ==
    IF rules # <<>>
    THEN LET g == builders_for_config(file_type, rules, 1,
                                      builders_document_header(file_type, version), changes)
         IN IF g.new_changes # <<>>
            THEN g.changelog_string \o builders_unlabeled_heading(file_type)
                     \o builders_join_lines(file_type, g.new_changes, 1)
            ELSE g.changelog_string
    ELSE builders_document_header(file_type, version)
             \o builders_join_lines(file_type, changes, 1)

\* PullRequestChangelogBuilder.parse_changelog without its lru_cache
PullRequestChangelogBuilder_parse_changelog(file_type, version, changes, rules, unlabeled) ==
    LET new_changes == changes
        changelog_string == builders_document_header(file_type, version)
    IN IF rules # <<>>
       THEN LET g == builders_for_config(file_type, rules, 1, changelog_string,
                                         new_changes)
            IN IF g.new_changes # <<>> /\ unlabeled
               THEN g.changelog_string \o builders_unlabeled_heading(file_type)
                        \o builders_join_lines(file_type, g.new_changes, 1)
               ELSE g.changelog_string
       ELSE changelog_string \o builders_join_lines(file_type, new_changes, 1)

RECURSIVE builders_join_commit_lines(_, _, _)
builders_join_commit_lines(file_type, new_changes, i) ==
    IF i > Len(new_changes) THEN <<>>
    ELSE CommitMessageChangelogBuilder_get_changelog_line(file_type, new_changes[i])
             \o builders_join_commit_lines(file_type, new_changes, i + 1)

\* CommitMessageChangelogBuilder.parse_changelog without its lru_cache
CommitMessageChangelogBuilder_parse_changelog(file_type, version, changes) ==
    builders_document_header(file_type, version)
        \o builders_join_commit_lines(file_type, changes, 1)

----------------------------------------------------------------------------
(* src/scripts/main.py *)

ChangelogCIPullRequest_get_changelog_line_scripts_main(file_type, item) ==
    IF file_type = MARKDOWN_FILE
    THEN <<"*"," ","[","#">> \o FormatInt(item.number) \o <<"]","(">> \o item.url
             \o <<")",":"," ">> \o item.title \o <<"\n">>
    ELSE <<"*"," ",BACKQUOTE,"#">> \o FormatInt(item.number) \o <<" ","<">> \o item.url
             \o <<">",BACKQUOTE,"_","_",":"," ">> \o item.title \o <<"\n">>

ChangelogCICommitMessage_get_changelog_line_scripts_main(file_type, item) ==
    IF file_type = MARKDOWN_FILE
    THEN <<"*"," ","[">> \o Slice(item.sha, 7) \o <<"]","(">> \o item.url
             \o <<")",":"," ">> \o item.message \o <<"\n">>
    ELSE <<"*"," ",BACKQUOTE>> \o Slice(item.sha, 7) \o <<" ","<">> \o item.url
             \o <<">",BACKQUOTE,"_","_",":"," ">> \o item.message \o <<"\n">>

\* the document header, scripts/main.py 456-461 and 590-595
scripts_main_document_header(file_type, version) ==
    IF file_type = MARKDOWN_FILE
    THEN <<"#"," ">> \o header(version) \o <<"\n","\n">>
    ELSE header(version) \o <<"\n">> \o Repeat("=", Len(header(version)))
             \o <<"\n","\n">>

\* the heading of a rule's group, scripts/main.py 488-494
scripts_main_group_heading(file_type, config) ==
    IF file_type = MARKDOWN_FILE
    THEN <<"\n","#","#","#","#"," ">> \o config.title \o <<"\n","\n">>
    ELSE <<"\n">> \o config.title \o <<"\n">>
             \o Repeat("-", Len(config.title)) \o <<"\n","\n">>

\* the heading of the unlabeled group, scripts/main.py 500-506
scripts_main_unlabeled_heading(file_type) ==
    IF file_type = MARKDOWN_FILE
    THEN <<"\n","#","#","#","#"," ">> \o unlabeled_group_title \o <<"\n","\n">>
    ELSE <<"\n">> \o unlabeled_group_title \o <<"\n">>
             \o Repeat("-", Len(unlabeled_group_title)) \o <<"\n","\n">>

RECURSIVE scripts_main_join_lines(_, _, _)
scripts_main_join_lines(file_type, new_changes, i) ==
    IF i > Len(new_changes) THEN <<>>
    ELSE ChangelogCIPullRequest_get_changelog_line_scripts_main(file_type, new_changes[i])
             \o scripts_main_join_lines(file_type, new_changes, i + 1)

RECURSIVE scripts_main_for_pull_request(_, _, _, _, _)
\* for pull_request in new_changes, 473-485: the list iterator reads
\* new_changes[i] of the list as it is now, while the body removes from it
scripts_main_for_pull_request(file_type, config, i, items_string, new_changes) ==
    IF i > Len(new_changes)
    THEN [items_string |-> items_string, new_changes |-> new_changes]
    ELSE LET pull_request == new_changes[i] IN
         IF LabelMatches(pull_request, config)
         THEN scripts_main_for_pull_request(
                  file_type, config, i + 1,
                  items_string \o ChangelogCIPullRequest_get_changelog_line_scripts_main(
                                      file_type, pull_request),
                  list_remove(new_changes, pull_request))
         ELSE scripts_main_for_pull_request(
                  file_type, config, i + 1, items_string, new_changes)

RECURSIVE scripts_main_for_config(_, _, _, _, _)
\* for config in group_config, 466-495
scripts_main_for_config(file_type, rules, k, string_data, new_changes) ==
    IF k > Len(rules) \/ Len(new_changes) = 0
    THEN [string_data |-> string_data, new_changes |-> new_changes]
    ELSE LET r == scripts_main_for_pull_request(file_type, rules[k], 1, <<>>,
                                                new_changes)
         IN scripts_main_for_config(
                file_type, rules, k + 1,
                IF r.items_string # <<>>
                THEN string_data \o scripts_main_group_heading(file_type, rules[k])
                         \o r.items_string
                ELSE string_data,
                r.new_changes)

\* ChangelogCIPullRequest.parse_changelog(file_type, version, changes)
ChangelogCIPullRequest_parse_changelog_scripts_main(file_type, version, changes, rules, unlabeled) ==
    LET new_changes == changes
        string_data == scripts_main_document_header(file_type, version)
    IN IF rules # <<>>
       THEN LET g == scripts_main_for_config(file_type, rules, 1, string_data,
                                             new_changes)
            IN IF g.new_changes # <<>> /\ unlabeled
               THEN g.string_data \o scripts_main_unlabeled_heading(file_type)
                        \o scripts_main_join_lines(file_type, g.new_changes, 1)
               ELSE g.string_data
       ELSE string_data \o scripts_main_join_lines(file_type, new_changes, 1)

RECURSIVE scripts_main_join_commit_lines(_, _, _)
scripts_main_join_commit_lines(file_type, new_changes, i) ==
    IF i > Len(new_changes) THEN <<>>
    ELSE ChangelogCICommitMessage_get_changelog_line_scripts_main(file_type, new_changes[i])
             \o scripts_main_join_commit_lines(file_type, new_changes, i + 1)

\* ChangelogCICommitMessage.parse_changelog(file_type, version, changes)
ChangelogCICommitMessage_parse_changelog_scripts_main(file_type, version, changes) ==
    scripts_main_document_header(file_type, version)
        \o scripts_main_join_commit_lines(file_type, changes, 1)

----------------------------------------------------------------------------
(* src/main.py: Markdown only; parse_changelog works on the caller's list *)

ChangelogCIPullRequest_get_changelog_line_main(item) ==
    <<"*"," ","[","#">> \o FormatInt(item.number) \o <<"]","(">> \o item.url
        \o <<")",":"," ">> \o item.title \o <<"\n">>

ChangelogCICommitMessage_get_changelog_line_main(item) ==
    <<"*"," ","[">> \o Slice(item.sha, 6) \o <<"]","(">> \o item.url
        \o <<")",":"," ">> \o item.message \o <<"\n">>

\* '# ' + self.config.header_prefix + ' ' + version + '\n\n', main.py 440-442
main_document_header(version) ==
    <<"#"," ">> \o header_prefix \o <<" ">> \o version \o <<"\n","\n">>

RECURSIVE main_join_lines(_, _)
\* ''.join(map(self._get_changelog_line, changes))
main_join_lines(changes, i) ==
    IF i > Len(changes) THEN <<>>
    ELSE ChangelogCIPullRequest_get_changelog_line_main(changes[i])
             \o main_join_lines(changes, i + 1)

RECURSIVE main_for_pull_request(_, _, _, _)
\* for pull_request in changes, main.py 454-466, removing from changes itself
main_for_pull_request(config, i, items_string, changes) ==
    IF i > Len(changes)
    THEN [items_string |-> items_string, changes |-> changes]
    ELSE LET pull_request == changes[i] IN
         IF LabelMatches(pull_request, config)
         THEN main_for_pull_request(
                  config, i + 1,
                  items_string \o ChangelogCIPullRequest_get_changelog_line_main(
                                      pull_request),
                  list_remove(changes, pull_request))
         ELSE main_for_pull_request(config, i + 1, items_string, changes)

RECURSIVE main_for_config(_, _, _, _)
\* for config in group_config, main.py 447-470
main_for_config(rules, k, string_data, changes) ==
    IF k > Len(rules) \/ Len(changes) = 0
    THEN [string_data |-> string_data, changes |-> changes]
    ELSE LET r == main_for_pull_request(rules[k], 1, <<>>, changes)
         IN main_for_config(
                rules, k + 1,
                IF r.items_string # <<>>
                THEN string_data \o <<"\n","#","#","#","#"," ">> \o rules[k].title
                         \o <<"\n","\n">> \o <<"\n">> \o r.items_string
                ELSE string_data,
                r.changes)

\* ChangelogCIPullRequest.parse_changelog(version, changes): the string it
\* returns and the caller's list as the call leaves it
ChangelogCIPullRequest_parse_changelog_main(version, changes, rules, unlabeled) ==
    LET string_data == main_document_header(version)
    IN IF rules # <<>>
       THEN LET g == main_for_config(rules, 1, string_data, changes)
            IN [string_data |->
                    IF g.changes # <<>> /\ unlabeled
                    THEN g.string_data
                             \o <<"\n","#","#","#","#"," ">> \o unlabeled_group_title
                             \o <<"\n","\n">> \o main_join_lines(g.changes, 1)
                    ELSE g.string_data,
                changes |-> g.changes]
       ELSE [string_data |-> string_data \o main_join_lines(changes, 1),
             changes |-> changes]

RECURSIVE main_join_commit_lines(_, _)
main_join_commit_lines(changes, i) ==
    IF i > Len(changes) THEN <<>>
    ELSE ChangelogCICommitMessage_get_changelog_line_main(changes[i])
             \o main_join_commit_lines(changes, i + 1)

\* ChangelogCICommitMessage.parse_changelog(version, changes), main.py 549-556
ChangelogCICommitMessage_parse_changelog_main(version, changes) ==
    main_document_header(version) \o main_join_commit_lines(changes, 1)

----------------------------------------------------------------------------
(* The inputs: what the change source and the configuration can hold *)

Labels == {"bug", "docs"}

\* merged pull requests as the search API lists them (sort:created-asc)
PullRequestPool ==
    << [number |-> 3,  url |-> <<"u","3">>,     title |-> <<"F","i","x"," ","X">>],
       [number |-> 5,  url |-> <<"u","5">>,     title |-> <<"A","d","d"," ","Y">>],
       [number |-> 12, url |-> <<"u","1","2">>, title |-> <<"Z">>] >>

\* commits: a long sha, one of exactly seven characters, a short identifier
CommitPool ==
    << [sha |-> <<"a","1","b","2","c","3","d","4","e","5">>, url |-> <<"c","1">>,
        message |-> <<"F","i","x"," ","A">>],
       [sha |-> <<"0","f","9","e","8","d","7">>, url |-> <<"c","2">>,
        message |-> <<"A","d","d"," ","B">>],
       [sha |-> <<"b","e","e","f","1">>, url |-> <<"c","3">>,
        message |-> <<"C">>] >>

\* validated group_config items (a title, a non-empty list of labels)
RulePool ==
    { [title |-> <<"B","u","g","s">>, labels |-> {"bug"}],
      [title |-> <<"D","o","c","s">>, labels |-> {"docs"}],
      [title |-> <<"U","p","d","a","t","e","s">>, labels |-> {"bug", "docs"}] }

RECURSIVE Ascending(_)
Ascending(S) ==
    IF S = {} THEN <<>>
    ELSE LET m == CHOOSE x \in S : \A y \in S : x <= y
         IN <<m>> \o Ascending(S \ {m})

IndexSets(n) == {S \in SUBSET (1..n) : Cardinality(S) <= MaxRecords}

PullRequestLists ==
    UNION { { [i \in 1..Cardinality(S) |->
                 LET p == PullRequestPool[Ascending(S)[i]]
                 IN [number |-> p.number, url |-> p.url, title |-> p.title,
                     labels |-> lab[Ascending(S)[i]]]]
              : lab \in [S -> SUBSET Labels] }
            : S \in IndexSets(Len(PullRequestPool)) }

CommitLists ==
    { [i \in 1..Cardinality(S) |-> CommitPool[Ascending(S)[i]]]
        : S \in IndexSets(Len(CommitPool)) }

RuleLists ==
    UNION { { q \in [1..n -> RulePool] : \A i, j \in 1..n : i # j => q[i] # q[j] }
            : n \in 0..MaxRules }

NotCached == <<"not cached">>
NotRendered == <<"not rendered">>
NoFile == <<"no file">>
NoResponse == [kind |-> "none"]
NoTitleGiven == [matches |-> FALSE, version |-> NoVersion]

----------------------------------------------------------------------------
(* The renderer's state machine *)

Init ==
    /\ ConfigurationGiven
    /\ impl \in Impls
    /\ changelog_type \in {PULL_REQUEST, COMMIT_MESSAGE}
    /\ group_config \in RuleLists
    /\ include_unlabeled_changes \in BOOLEAN
    /\ change_list \in IF changelog_type = PULL_REQUEST
                       THEN PullRequestLists ELSE CommitLists
    /\ parse_cache = [f \in FileTypes |-> NotCached]
    /\ last_call = NoCall
    /\ prev_call = NoCall
    /\ release_version = InputVersion
    /\ changelog_file_type = MARKDOWN_FILE
    /\ commit_changelog = TRUE
    /\ comment_changelog = FALSE
    /\ token = FALSE
    /\ event_name = WORKFLOW_DISPATCH_EVENT
    /\ pull_request_title = NoTitleGiven
    /\ pc = "idle"
    /\ response = NoResponse
    /\ rendered = NotRendered
    /\ rendered_markdown = NotRendered
    /\ changelog_file = NoFile
    /\ published = <<>>
    /\ reported = {}
    /\ builds = 0

Called(file_type, output) ==
    /\ last_call' = [file_type |-> file_type, input |-> change_list,
                     output |-> output]
    /\ prev_call' = last_call

\* @lru_cache: the first call for a file_type computes, later calls return
\* the stored string
lru_cache(file_type, computed) ==
    IF parse_cache[file_type] # NotCached THEN parse_cache[file_type] ELSE computed

\* builders.py, PullRequestChangelogBuilder.parse_changelog(file_type)
PullRequestBuilderParse ==
    /\ impl = "builders" /\ changelog_type = PULL_REQUEST
    /\ \E file_type \in FileTypes :
         LET out == lru_cache(file_type,
                        PullRequestChangelogBuilder_parse_changelog(
                            file_type, release_version, change_list, group_config,
                            include_unlabeled_changes))
         IN /\ Called(file_type, out)
            /\ parse_cache' = [parse_cache EXCEPT ![file_type] = out]
    /\ UNCHANGED <<static, release_version, change_list, running>>

\* builders.py, CommitMessageChangelogBuilder.parse_changelog(file_type)
CommitBuilderParse ==
    /\ impl = "builders" /\ changelog_type = COMMIT_MESSAGE
    /\ \E file_type \in FileTypes :
         LET out == lru_cache(file_type,
                        CommitMessageChangelogBuilder_parse_changelog(
                            file_type, release_version, change_list))
         IN /\ Called(file_type, out)
            /\ parse_cache' = [parse_cache EXCEPT ![file_type] = out]
    /\ UNCHANGED <<static, release_version, change_list, running>>

\* scripts/main.py, ChangelogCIPullRequest.parse_changelog(file_type, version, changes)
PullRequestParseScriptsMain ==
    /\ impl = "scripts_main" /\ changelog_type = PULL_REQUEST
    /\ \E file_type \in FileTypes :
         Called(file_type,
                ChangelogCIPullRequest_parse_changelog_scripts_main(
                    file_type, release_version, change_list, group_config,
                    include_unlabeled_changes))
    /\ UNCHANGED <<static, release_version, change_list, parse_cache, running>>

\* scripts/main.py, ChangelogCICommitMessage.parse_changelog(file_type, version, changes)
CommitParseScriptsMain ==
    /\ impl = "scripts_main" /\ changelog_type = COMMIT_MESSAGE
    /\ \E file_type \in FileTypes :
         Called(file_type,
                ChangelogCICommitMessage_parse_changelog_scripts_main(
                    file_type, release_version, change_list))
    /\ UNCHANGED <<static, release_version, change_list, parse_cache, running>>

\* src/main.py, ChangelogCIPullRequest.parse_changelog(version, changes)
PullRequestParseMain ==
    /\ impl = "main" /\ changelog_type = PULL_REQUEST
    /\ LET r == ChangelogCIPullRequest_parse_changelog_main(
                    release_version, change_list, group_config, include_unlabeled_changes)
       IN /\ Called(MARKDOWN_FILE, r.string_data)
          /\ change_list' = r.changes
    /\ UNCHANGED <<static, release_version, parse_cache, running>>

\* src/main.py, ChangelogCICommitMessage.parse_changelog(version, changes)
CommitParseMain ==
    /\ impl = "main" /\ changelog_type = COMMIT_MESSAGE
    /\ Called(MARKDOWN_FILE,
              ChangelogCICommitMessage_parse_changelog_main(release_version, change_list))
    /\ UNCHANGED <<static, release_version, change_list, parse_cache, running>>

Next ==
    \/ PullRequestBuilderParse
    \/ CommitBuilderParse
    \/ PullRequestParseScriptsMain
    \/ CommitParseScriptsMain
    \/ PullRequestParseMain
    \/ CommitParseMain

Spec == Init /\ [][Next]_vars

----------------------------------------------------------------------------
(* The change source *)

MergePullRequestPrefix ==
    <<"M","e","r","g","e"," ","p","u","l","l"," ","r","e","q","u","e","s","t"," ","#">>
MergeBranchPrefix == <<"M","e","r","g","e"," ","b","r","a","n","c","h">>

\* s.startswith(prefix)
startswith(s, prefix) ==
    Len(s) >= Len(prefix) /\ SubSeq(s, 1, Len(prefix)) = prefix

\* the items of the search API, oldest first
PullRequestAPIItems ==
    << [number |-> 3,  html_url |-> <<"u","3">>, title |-> <<"F","i","x"," ","X">>,
        labels |-> {"bug"}],
       [number |-> 5,  html_url |-> <<"u","5">>, title |-> <<"A","d","d"," ","Y">>,
        labels |-> {}],
       [number |-> 12, html_url |-> <<"u","1","2">>, title |-> <<"Z">>,
        labels |-> {"docs"}] >>

\* the items of the commits API: a merge commit, then two commits
CommitAPIItems ==
    << [sha |-> <<"9","9","9","9","9","9","9","9">>, html_url |-> <<"c","0">>,
        message |-> MergeBranchPrefix \o <<" ","x">>],
       [sha |-> <<"a","1","b","2","c","3","d","4","e","5">>, html_url |-> <<"c","1">>,
        message |-> <<"F","i","x"," ","A">>],
       [sha |-> <<"0","f","9","e","8","d","7">>, html_url |-> <<"c","2">>,
        message |-> <<"A","d","d"," ","B">>] >>

Fetched(n) == IF n < Len(PullRequestAPIItems) THEN n ELSE Len(PullRequestAPIItems)

\* what requests.get can do: answer with a status code, or raise
ChangeResponses(type) ==
    { [kind |-> "response", status_code |-> 200, total_count |-> Fetched(n),
       items |-> SubSeq(IF type = PULL_REQUEST THEN PullRequestAPIItems
                        ELSE CommitAPIItems, 1, Fetched(n))] : n \in 0..MaxFetched }
    \cup { [kind |-> "response", status_code |-> 403, total_count |-> 0,
            items |-> <<>>],
           [kind |-> "network_error"] }

ReleaseResponses ==
    { [kind |-> "response", status_code |-> 200],
      [kind |-> "response", status_code |-> 404],
      [kind |-> "network_error"] }

\* ChangelogBuilderBase._get_latest_release_date, once the response is there
get_latest_release_date(resp) ==
    IF resp.status_code = 200
    THEN [published_date |-> "published_at", reported |-> {}]
    ELSE [published_date |-> "",
          reported |-> {"warning: could not find any previous release"}]

\* PullRequestChangelogBuilder._get_changes_after_last_release, once the
\* response is there
PullRequestChangelogBuilder_get_changes_after_last_release(resp) ==
    IF resp.status_code = 200
    THEN IF resp.total_count > 0
         THEN [items |-> [i \in 1..Len(resp.items) |->
                            [title |-> resp.items[i].title,
                             number |-> resp.items[i].number,
                             url |-> resp.items[i].html_url,
                             labels |-> resp.items[i].labels]],
               reported |-> {}]
         ELSE [items |-> <<>>,
               reported |-> {"error: there was no pull request after last release"}]
    ELSE [items |-> <<>>, reported |-> {"error: could not get pull requests"}]

IsMergeCommit(item) ==
    \/ startswith(item.message, MergePullRequestPrefix)
    \/ startswith(item.message, MergeBranchPrefix)

NotMergeCommit(item) == ~IsMergeCommit(item)

\* CommitMessageChangelogBuilder._get_changes_after_last_release, once the
\* response is there
CommitMessageChangelogBuilder_get_changes_after_last_release(resp) ==
    IF resp.status_code = 200
    THEN IF Len(resp.items) > 0
         THEN LET kept == SelectSeq(resp.items, NotMergeCommit)
              IN [items |-> [i \in 1..Len(kept) |->
                               [sha |-> kept[i].sha,
                                message |-> kept[i].message,
                                url |-> kept[i].html_url]],
                  reported |-> IF Len(kept) < Len(resp.items)
                               THEN {"notice: skipping merge commit"} ELSE {}]
         ELSE [items |-> <<>>,
               reported |-> {"error: there was no commit after last release"}]
    ELSE [items |-> <<>>, reported |-> {"error: could not get commits"}]

\* scripts/main.py: ChangelogCIBase._get_latest_release_date
get_latest_release_date_scripts_main(resp) ==
    IF resp.status_code = 200
    THEN [published_date |-> "published_at", reported |-> {}]
    ELSE [published_date |-> "",
          reported |-> {"warning: could not find any previous release"}]

\* scripts/main.py: ChangelogCIPullRequest.get_changes_after_last_release
ChangelogCIPullRequest_get_changes_after_last_release(resp) ==
    IF resp.status_code = 200
    THEN IF resp.total_count > 0
         THEN [items |-> [i \in 1..Len(resp.items) |->
                            [title |-> resp.items[i].title,
                             number |-> resp.items[i].number,
                             url |-> resp.items[i].html_url,
                             labels |-> resp.items[i].labels]],
               reported |-> {}]
         ELSE [items |-> <<>>,
               reported |-> {"error: there was no pull request after last release"}]
    ELSE [items |-> <<>>, reported |-> {"error: could not get pull requests"}]

\* scripts/main.py: ChangelogCICommitMessage.get_changes_after_last_release
ChangelogCICommitMessage_get_changes_after_last_release(resp) ==
    IF resp.status_code = 200
    THEN IF Len(resp.items) > 0
         THEN LET kept == SelectSeq(resp.items, NotMergeCommit)
              IN [items |-> [i \in 1..Len(kept) |->
                               [sha |-> kept[i].sha,
                                message |-> kept[i].message,
                                url |-> kept[i].html_url]],
                  reported |-> IF Len(kept) < Len(resp.items)
                               THEN {"notice: skipping merge commit"} ELSE {}]
         ELSE [items |-> <<>>,
               reported |-> {"error: there was no commit after last release"}]
    ELSE [items |-> <<>>, reported |-> {"error: could not get commits"}]

----------------------------------------------------------------------------
(* scripts/main.py: ChangelogCIBase.run, and builders.py: build *)

\* the group_config values a run starts with
RunRuleLists ==
    { <<>>, <<[title |-> <<"B","u","g","s">>, labels |-> {"bug"}]>> }

\* what the two regular expressions find in the pull request title
PullRequestTitles ==
    [matches : BOOLEAN, version : {NoVersion, TitleVersion}]

OldBody == <<"o","l","d">>

InitRun ==
    /\ ConfigurationGiven
    /\ impl \in {"scripts_main", "builders"}
    /\ changelog_type \in {PULL_REQUEST, COMMIT_MESSAGE}
    /\ group_config \in RunRuleLists
    /\ include_unlabeled_changes = TRUE
    /\ changelog_file_type \in FileTypes
    /\ IF impl = "scripts_main"
       THEN /\ commit_changelog \in BOOLEAN
            /\ comment_changelog \in BOOLEAN
            /\ token \in BOOLEAN
            /\ event_name \in {PULL_REQUEST_EVENT, WORKFLOW_DISPATCH_EVENT}
            /\ pull_request_title \in
                 IF event_name = PULL_REQUEST_EVENT THEN PullRequestTitles
                 ELSE {NoTitleGiven}
            /\ release_version \in {NoVersion, InputVersion}
            /\ changelog_file \in {NoFile, OldBody}
       ELSE /\ commit_changelog = TRUE
            /\ comment_changelog = FALSE
            /\ token = FALSE
            /\ event_name = WORKFLOW_DISPATCH_EVENT
            /\ pull_request_title = NoTitleGiven
            /\ release_version = InputVersion
            /\ changelog_file = NoFile
    /\ change_list = <<>>
    /\ parse_cache = [t \in FileTypes |-> NotCached]
    /\ last_call = NoCall
    /\ prev_call = NoCall
    /\ pc = "start"
    /\ response = NoResponse
    /\ rendered = NotRendered
    /\ rendered_markdown = NotRendered
    /\ published = <<>>
    /\ reported = {}
    /\ builds = 0

validate_pull_request_title(title) == title.matches

set_release_version_from_pull_request_title(current, title) ==
    IF title.version # NoVersion THEN title.version ELSE current

\* the diagnostics of the aborts of run, lines 252-320
AbortDiagnostics ==
    {"error: commit_changelog and comment_changelog are both False",
     "error: could not find the release version",
     "error: the title of the pull request did not match",
     "error: no version number in the pull request title",
     "error: release_version input must be provided"}

\* a run that goes on to fetch whatever the flags and the version are
run_validate_goes_on(commit, comment, event, current, title) ==
    [pc |-> "fetch", release_version |-> current, reported |-> {}]

\* a validation that takes any pull request title
run_validate_takes_any_title(commit, comment, event, current, title) ==
    IF ~commit /\ ~comment
    THEN [pc |-> "aborted", release_version |-> current,
          reported |-> {"error: commit_changelog and comment_changelog are both False"}]
    ELSE IF event # PULL_REQUEST_EVENT /\ current = NoVersion
    THEN [pc |-> "aborted", release_version |-> current,
          reported |-> {"error: could not find the release version"}]
    ELSE [pc |-> "fetch", release_version |-> InputVersion, reported |-> {}]

\* run, lines 252-320: where the run goes, what it reports, and the
\* release version it ends with
run_validate(commit, comment, event, current, title) ==
    IF ~commit /\ ~comment
    THEN [pc |-> "aborted", release_version |-> current,
          reported |-> {"error: commit_changelog and comment_changelog are both False"}]
    ELSE IF event # PULL_REQUEST_EVENT /\ current = NoVersion
    THEN [pc |-> "aborted", release_version |-> current,
          reported |-> {"error: could not find the release version"}]
    ELSE IF event = PULL_REQUEST_EVENT /\ ~validate_pull_request_title(title)
    THEN [pc |-> "aborted", release_version |-> current,
          reported |-> {"error: the title of the pull request did not match"}]
    ELSE LET v == IF event = PULL_REQUEST_EVENT
                  THEN set_release_version_from_pull_request_title(current, title)
                  ELSE current
         IN IF v = NoVersion
            THEN [pc |-> "aborted", release_version |-> v,
                  reported |-> IF event = PULL_REQUEST_EVENT
                               THEN {"error: no version number in the pull request title"}
                               ELSE {"error: release_version input must be provided"}]
            ELSE [pc |-> "fetch", release_version |-> v, reported |-> {}]

RunValidate ==
    /\ impl = "scripts_main"
    /\ pc = "start"
    /\ LET r == run_validate(commit_changelog, comment_changelog, event_name,
                             release_version, pull_request_title)
       IN /\ pc' = r.pc
          /\ release_version' = r.release_version
          /\ reported' = reported \cup r.reported
    /\ UNCHANGED <<static, change_list, parse_cache, last_call, prev_call,
                   response, rendered, rendered_markdown, changelog_file,
                   published, builds>>

\* `if not changes:` of run
run_no_changes_never(changes) == FALSE

run_no_changes(changes) == changes = <<>>

get_changes_after_last_release(type, resp) ==
    IF type = PULL_REQUEST
    THEN ChangelogCIPullRequest_get_changes_after_last_release(resp)
    ELSE ChangelogCICommitMessage_get_changes_after_last_release(resp)

\* run, lines 322-326.  An exception of requests.get is caught nowhere.
RunGetChanges ==
    /\ impl = "scripts_main"
    /\ pc = "fetch"
    /\ \E rel \in ReleaseResponses, resp \in ChangeResponses(changelog_type) :
         IF rel.kind = "network_error"
         THEN /\ pc' = "fault"
              /\ UNCHANGED <<response, change_list, reported>>
         ELSE IF resp.kind = "network_error"
         THEN /\ pc' = "fault"
              /\ response' = resp
              /\ reported' = reported
                             \cup get_latest_release_date_scripts_main(rel).reported
              /\ UNCHANGED change_list
         ELSE LET r == get_changes_after_last_release(changelog_type, resp)
              IN /\ response' = resp
                 /\ change_list' = r.items
                 /\ reported' = reported \cup r.reported
                       \cup get_latest_release_date_scripts_main(rel).reported
                 /\ pc' = IF run_no_changes(r.items) THEN "no_changes"
                          ELSE "render"
    /\ UNCHANGED <<static, release_version, parse_cache, last_call, prev_call,
                   rendered, rendered_markdown, changelog_file, published,
                   builds>>

\* self.parse_changelog(file_type, self.release_version, changes)
run_parse_changelog(file_type) ==
    IF changelog_type = PULL_REQUEST
    THEN ChangelogCIPullRequest_parse_changelog_scripts_main(
             file_type, release_version, change_list, group_config,
             include_unlabeled_changes)
    ELSE ChangelogCICommitMessage_parse_changelog_scripts_main(
             file_type, release_version, change_list)

\* a second parse_changelog call for the comment only
needs_markdown_copy_for_comment ==
    /\ comment_changelog
    /\ changelog_file_type = RESTRUCTUREDTEXT_FILE

\* the condition of the second parse_changelog call, lines 335-340
needs_markdown_copy ==
    /\ comment_changelog \/ event_name # PULL_REQUEST_EVENT
    /\ changelog_file_type = RESTRUCTUREDTEXT_FILE

\* where run goes after the commit_changelog block
after_commit_block == IF comment_changelog THEN "comment" ELSE "done"

\* run, lines 328-345
RunParse ==
    /\ impl = "scripts_main"
    /\ pc = "render"
    /\ rendered' = run_parse_changelog(changelog_file_type)
    /\ IF needs_markdown_copy
       THEN /\ rendered_markdown' = run_parse_changelog(MARKDOWN_FILE)
            /\ prev_call' = [file_type |-> changelog_file_type,
                             input |-> change_list, output |-> rendered']
            /\ last_call' = [file_type |-> MARKDOWN_FILE,
                             input |-> change_list,
                             output |-> rendered_markdown']
       ELSE /\ rendered_markdown' = rendered'
            /\ Called(changelog_file_type, rendered')
    /\ pc' = IF commit_changelog THEN "write_file" ELSE after_commit_block
    /\ UNCHANGED <<static, release_version, change_list, parse_cache, response,
                   changelog_file, published, reported, builds>>

\* a write that does not put the old body back
update_changelog_file_drops_body(file, string_data) == string_data

\* _get_file_mode and _update_changelog_file: the new entry goes first, the
\* old body follows after a blank line
update_changelog_file(file, string_data) ==
    LET body == IF file = NoFile THEN <<>> ELSE file
    IN string_data \o (IF body # <<>> THEN <<"\n", "\n">> \o body ELSE <<>>)

\* run, line 348
RunUpdateChangelogFile ==
    /\ impl = "scripts_main"
    /\ pc = "write_file"
    /\ changelog_file' = update_changelog_file(changelog_file, rendered)
    /\ published' = Append(published, [op |-> "file_write", body |-> rendered,
                                       ok |-> TRUE])
    /\ pc' = "commit"
    /\ UNCHANGED <<static, release_version, change_list, parse_cache, last_call,
                   prev_call, response, rendered, rendered_markdown, reported,
                   builds>>

\* run, lines 349-356: _commit_changelog on the pull request's branch, or
\* _create_new_branch.  subprocess.run's return code is not looked at.
RunCommitChangelog ==
    /\ impl = "scripts_main"
    /\ pc = "commit"
    /\ \E git_ok \in BOOLEAN :
         IF event_name = PULL_REQUEST_EVENT
         THEN /\ published' = Append(published,
                    [op |-> "git_commit_push", body |-> <<"pull_request_branch">>,
                     ok |-> git_ok])
              /\ pc' = after_commit_block
         ELSE /\ published' = published \o
                    << [op |-> "git_checkout_new_branch",
                        body |-> <<"new_branch">>, ok |-> git_ok],
                       [op |-> "git_commit_push", body |-> <<"new_branch">>,
                        ok |-> git_ok] >>
              /\ pc' = "create_pr"
    /\ UNCHANGED <<static, release_version, change_list, parse_cache, last_call,
                   prev_call, response, rendered, rendered_markdown,
                   changelog_file, reported, builds>>

\* what requests.post can do
PostOutcomes == {"201", "422", "network_error"}

\* run, line 359, and _create_pull_request
RunCreatePullRequest ==
    /\ impl = "scripts_main"
    /\ pc = "create_pr"
    /\ \E post \in PostOutcomes :
         /\ published' = Append(published,
               [op |-> "create_pull_request", body |-> rendered_markdown,
                ok |-> post = "201"])
         /\ reported' = IF post = "422"
                        THEN reported \cup {"error: could not create a pull request"}
                        ELSE reported
         /\ pc' = IF post = "network_error" THEN "fault" ELSE after_commit_block
    /\ UNCHANGED <<static, release_version, change_list, parse_cache, last_call,
                   prev_call, response, rendered, rendered_markdown,
                   changelog_file, builds>>

\* a comment step that posts whatever the event is
RunCommentChangelog_on_any_event ==
    /\ impl = "scripts_main"
    /\ pc = "comment"
    /\ published' = Append(published,
          [op |-> "comment", body |-> rendered_markdown, ok |-> TRUE])
    /\ pc' = "done"
    /\ UNCHANGED <<static, release_version, change_list, parse_cache, last_call,
                   prev_call, response, rendered, rendered_markdown,
                   changelog_file, reported, builds>>

\* run, lines 362-373, and _comment_changelog
RunCommentChangelog ==
    /\ impl = "scripts_main"
    /\ pc = "comment"
    /\ IF event_name # PULL_REQUEST_EVENT
       THEN /\ reported' = reported \cup
                  {"error: comment_changelog can only be used on a pull request"}
            /\ pc' = "done"
            /\ UNCHANGED published
       ELSE IF ~token
       THEN /\ reported' = reported \cup {"error: github_token input is required"}
            /\ pc' = "done"
            /\ UNCHANGED published
       ELSE \E post \in PostOutcomes :
              /\ published' = Append(published,
                    [op |-> "comment", body |-> rendered_markdown,
                     ok |-> post = "201"])
              /\ reported' = IF post = "422"
                             THEN reported \cup {"error: could not create a comment"}
                             ELSE reported
              /\ pc' = IF post = "network_error" THEN "fault" ELSE "done"
    /\ UNCHANGED <<static, release_version, change_list, parse_cache, last_call,
                   prev_call, response, rendered, rendered_markdown,
                   changelog_file, builds>>

\* `if not self.change_list:` of build
build_no_changes(changes) == changes = <<>>

builder_get_changes_after_last_release(type, resp) ==
    IF type = PULL_REQUEST
    THEN PullRequestChangelogBuilder_get_changes_after_last_release(resp)
    ELSE CommitMessageChangelogBuilder_get_changes_after_last_release(resp)

\* self.parse_changelog(file_type) of the builder, before the cache
builder_parse_changelog(file_type, changes) ==
    IF changelog_type = PULL_REQUEST
    THEN PullRequestChangelogBuilder_parse_changelog(
             file_type, release_version, changes, group_config,
             include_unlabeled_changes)
    ELSE CommitMessageChangelogBuilder_parse_changelog(
             file_type, release_version, changes)

\* builders.py: ChangelogBuilderBase.build.  SystemExit(0) ends the process;
\* an exception of requests.get is caught nowhere.
Build ==
    /\ impl = "builders"
    /\ pc \in {"start", "built"}
    /\ builds < MaxBuilds
    /\ builds' = builds + 1
    /\ \E rel \in ReleaseResponses, resp \in ChangeResponses(changelog_type) :
         IF rel.kind = "network_error"
         THEN /\ pc' = "fault"
              /\ UNCHANGED <<response, change_list, reported, rendered,
                             parse_cache, last_call, prev_call>>
         ELSE IF resp.kind = "network_error"
         THEN /\ pc' = "fault"
              /\ response' = resp
              /\ reported' = reported \cup get_latest_release_date(rel).reported
              /\ UNCHANGED <<change_list, rendered, parse_cache, last_call,
                             prev_call>>
         ELSE LET r == builder_get_changes_after_last_release(changelog_type, resp)
                  out == lru_cache(changelog_file_type,
                             builder_parse_changelog(changelog_file_type, r.items))
              IN /\ response' = resp
                 /\ change_list' = r.items
                 /\ reported' = reported \cup r.reported
                                \cup get_latest_release_date(rel).reported
                 /\ IF build_no_changes(r.items)
                    THEN /\ pc' = "exit0"
                         /\ UNCHANGED <<rendered, parse_cache, last_call,
                                        prev_call>>
                    ELSE /\ pc' = "built"
                         /\ rendered' = out
                         /\ parse_cache' =
                              [parse_cache EXCEPT ![changelog_file_type] = out]
                         /\ last_call' = [file_type |-> changelog_file_type,
                                          input |-> r.items, output |-> out]
                         /\ prev_call' = last_call
    /\ UNCHANGED <<static, release_version, rendered_markdown, changelog_file,
                   published>>

\* where a run has ended
EndedAt == {"aborted", "no_changes", "done", "exit0", "fault"}

\* the exit status of the process: run() returning lets the script run to
\* its end, SystemExit(0) carries 0, an uncaught exception ends the
\* interpreter with 1
exit_status(at) ==
    CASE at \in {"aborted", "no_changes", "done"} -> 0
      [] at = "exit0" -> 0
      [] at = "fault" -> 1

NextRun ==
    \/ RunValidate
    \/ RunGetChanges
    \/ RunParse
    \/ RunUpdateChangelogFile
    \/ RunCommitChangelog
    \/ RunCreatePullRequest
    \/ RunCommentChangelog
    \/ Build

SpecRun == InitRun /\ [][NextRun]_vars

\* run and build are straight-line code: every call of theirs returns or
\* raises, so a step that can be taken is taken
SpecRunFair == SpecRun /\ WF_vars(NextRun)

----------------------------------------------------------------------------
(* Publishing what a builder built, with the git steps of run_git.py *)

\* run_subprocess_command: a return code other than 0 is reported and
\* raises SystemExit(returncode)
run_subprocess_command(returncode) ==
    [raised |-> returncode # 0,
     reported |-> IF returncode # 0 THEN {"error: git stderr"} ELSE {}]

GitReturnCodes == {0, 1}

\* one run_subprocess_command after the other: the commands that were run
\* (the last one may have failed), and whether SystemExit was raised
RECURSIVE run_commands(_, _, _)
run_commands(commands, codes, i) ==
    IF i > Len(commands)
    THEN [ran |-> <<>>, raised |-> FALSE, reported |-> {}]
    ELSE LET r == run_subprocess_command(codes[i])
             this == [op |-> commands[i], body |-> <<>>, ok |-> codes[i] = 0]
         IN IF r.raised
            THEN [ran |-> <<this>>, raised |-> TRUE, reported |-> r.reported]
            ELSE LET rest == run_commands(commands, codes, i + 1)
                 IN [ran |-> <<this>> \o rest.ran, raised |-> rest.raised,
                     reported |-> r.reported \cup rest.reported]

\* run_git.py: create_new_git_branch
create_new_git_branch(codes) ==
    run_commands(<<"git checkout base_branch", "git checkout -b new_branch">>,
                 codes, 1)

\* run_git.py: git_commit_changelog
git_commit_changelog(codes) ==
    run_commands(<<"git add", "git commit", "git push">>, codes, 1)

\* the change lists a builder can have built from
BuiltChangeLists(type) ==
    { builder_get_changes_after_last_release(type, resp).items :
        resp \in { r \in ChangeResponses(type) : r.kind = "response" } }
    \ { <<>> }

\* build() has returned its string; the publishing flags are not both off
InitPublish ==
    /\ ConfigurationGiven
    /\ impl = "builders"
    /\ changelog_type \in {PULL_REQUEST, COMMIT_MESSAGE}
    /\ group_config \in RunRuleLists
    /\ include_unlabeled_changes = TRUE
    /\ changelog_file_type \in FileTypes
    /\ commit_changelog \in BOOLEAN
    /\ comment_changelog \in BOOLEAN
    /\ commit_changelog \/ comment_changelog
    /\ token \in BOOLEAN
    /\ event_name \in {PULL_REQUEST_EVENT, WORKFLOW_DISPATCH_EVENT}
    /\ pull_request_title = NoTitleGiven
    /\ release_version = InputVersion
    /\ changelog_file \in {NoFile, OldBody}
    /\ change_list \in BuiltChangeLists(changelog_type)
    /\ rendered = builder_parse_changelog(changelog_file_type, change_list)
    /\ rendered_markdown = builder_parse_changelog(MARKDOWN_FILE, change_list)
    /\ parse_cache = [t \in FileTypes |->
                        builder_parse_changelog(t, change_list)]
    /\ last_call = NoCall
    /\ prev_call = NoCall
    /\ pc = "built"
    /\ response = NoResponse
    /\ published = <<>>
    /\ reported = {}
    /\ builds = 1

\* where publishing goes after the commit_changelog part
after_commit_part == IF comment_changelog THEN "post_comment" ELSE "done"

\* Rendered -> Done: write_file, when commit_changelog is set
PublishWriteFile ==
    /\ pc = "built"
    /\ IF commit_changelog
       THEN /\ changelog_file' = update_changelog_file(changelog_file, rendered)
            /\ published' = Append(published,
                  [op |-> "file_write", body |-> rendered, ok |-> TRUE])
            /\ pc' = IF event_name = PULL_REQUEST_EVENT THEN "git_commit"
                     ELSE "git_branch"
       ELSE /\ pc' = after_commit_part
            /\ UNCHANGED <<changelog_file, published>>
    /\ UNCHANGED <<static, release_version, change_list, parse_cache, last_call,
                   prev_call, response, rendered, rendered_markdown, reported,
                   builds>>

\* a new branch for the pull request that will carry the changelog
PublishCreateNewGitBranch ==
    /\ pc = "git_branch"
    /\ \E codes \in [1..2 -> GitReturnCodes] :
         LET r == create_new_git_branch(codes)
         IN /\ published' = published \o r.ran
            /\ reported' = reported \cup r.reported
            /\ pc' = IF r.raised THEN "system_exit" ELSE "git_commit"
    /\ UNCHANGED <<static, release_version, change_list, parse_cache, last_call,
                   prev_call, response, rendered, rendered_markdown,
                   changelog_file, builds>>

\* commit_and_push
PublishGitCommitChangelog ==
    /\ pc = "git_commit"
    /\ \E codes \in [1..3 -> GitReturnCodes] :
         LET r == git_commit_changelog(codes)
         IN /\ published' = published \o r.ran
            /\ reported' = reported \cup r.reported
            /\ pc' = IF r.raised THEN "system_exit"
                     ELSE IF event_name = PULL_REQUEST_EVENT
                     THEN after_commit_part ELSE "open_pr"
    /\ UNCHANGED <<static, release_version, change_list, parse_cache, last_call,
                   prev_call, response, rendered, rendered_markdown,
                   changelog_file, builds>>

\* open_pull_request: a failure is reported
PublishOpenPullRequest ==
    /\ pc = "open_pr"
    /\ \E post \in PostOutcomes :
         /\ published' = Append(published,
               [op |-> "create_pull_request", body |-> rendered_markdown,
                ok |-> post = "201"])
         /\ reported' = IF post # "201"
                        THEN reported \cup {"error: could not create a pull request"}
                        ELSE reported
    /\ pc' = after_commit_part
    /\ UNCHANGED <<static, release_version, change_list, parse_cache, last_call,
                   prev_call, response, rendered, rendered_markdown,
                   changelog_file, builds>>

\* post_comment on the pull request of the event: a failure is reported
PublishPostComment ==
    /\ pc = "post_comment"
    /\ IF event_name = PULL_REQUEST_EVENT /\ token
       THEN \E post \in PostOutcomes :
              /\ published' = Append(published,
                    [op |-> "comment", body |-> rendered_markdown,
                     ok |-> post = "201"])
              /\ reported' = IF post # "201"
                             THEN reported \cup {"error: could not create a comment"}
                             ELSE reported
       ELSE /\ reported' = reported \cup {"error: could not add a comment"}
            /\ UNCHANGED published
    /\ pc' = "done"
    /\ UNCHANGED <<static, release_version, change_list, parse_cache, last_call,
                   prev_call, response, rendered, rendered_markdown,
                   changelog_file, builds>>

NextPublish ==
    \/ PublishWriteFile
    \/ PublishCreateNewGitBranch
    \/ PublishGitCommitChangelog
    \/ PublishOpenPullRequest
    \/ PublishPostComment

SpecPublish == InitPublish /\ [][NextPublish]_vars

----------------------------------------------------------------------------
(* The commit source of each revision, and what it hands to rendering *)

\* src/changelog-ci.py: ChangelogCICommitMessage.get_changes_after_last_release,
\* once the response is there
ChangelogCICommitMessage_get_changes_after_last_release_changelog_ci(resp) ==
    IF resp.status_code = 200
    THEN IF Len(resp.items) > 0
         THEN [items |-> [i \in 1..Len(resp.items) |->
                            [sha |-> resp.items[i].sha,
                             message |-> resp.items[i].message,
                             url |-> resp.items[i].html_url]],
               reported |-> {}]
         ELSE [items |-> <<>>,
               reported |-> {"error: there was no commit after last release"}]
    ELSE [items |-> <<>>, reported |-> {"error: could not get commits"}]

\* src/changelog-ci.py: ChangelogCIBase._get_latest_release_date
get_latest_release_date_changelog_ci(resp) ==
    IF resp.status_code = 200
    THEN [published_date |-> "published_at", reported |-> {}]
    ELSE [published_date |-> "",
          reported |-> {"warning: could not find any previous release"}]

\* src/changelog-ci.py: ChangelogCICommitMessage._get_changelog_line
ChangelogCICommitMessage_get_changelog_line_changelog_ci(item) ==
    <<"*"," ","[">> \o Slice(item.sha, 6) \o <<"]","(">> \o item.url
        \o <<")",":"," ">> \o item.message \o <<"\n">>

RECURSIVE changelog_ci_join_commit_lines(_, _)
changelog_ci_join_commit_lines(changes, i) ==
    IF i > Len(changes) THEN <<>>
    ELSE ChangelogCICommitMessage_get_changelog_line_changelog_ci(changes[i])
             \o changelog_ci_join_commit_lines(changes, i + 1)

\* src/changelog-ci.py: ChangelogCICommitMessage.parse_changelog
ChangelogCICommitMessage_parse_changelog_changelog_ci(version, changes) ==
    <<"#"," ">> \o header_prefix \o <<" ">> \o version \o <<"\n","\n">>
        \o changelog_ci_join_commit_lines(changes, 1)

\* commits the API can list: two plain ones, the two kinds of merge commit,
\* and one whose message holds "Merge branch" further in
CommitAPIPool ==
    { [sha |-> <<"a","1","b","2","c","3","d","4","e","5">>, html_url |-> <<"c","1">>,
       message |-> <<"F","i","x"," ","A">>],
      [sha |-> <<"9","9","9","9","9","9","9","9">>, html_url |-> <<"c","2">>,
       message |-> MergeBranchPrefix \o <<" ","x">>],
      [sha |-> <<"8","8","8","8","8","8","8","8">>, html_url |-> <<"c","3">>,
       message |-> MergePullRequestPrefix \o <<"3">>],
      [sha |-> <<"0","f","9","e","8","d","7">>, html_url |-> <<"c","4">>,
       message |-> <<"R","e"," ">> \o MergeBranchPrefix] }

\* the lists of distinct commits of at most MaxFetched items, in any order
CommitAPILists ==
    UNION { { l \in [1..n -> CommitAPIPool] :
                \A i, j \in 1..n : i # j => l[i] # l[j] } : n \in 0..MaxFetched }

CommitResponses ==
    { [kind |-> "response", status_code |-> 200, total_count |-> Len(l),
       items |-> l] : l \in CommitAPILists }
    \cup { [kind |-> "response", status_code |-> 403, total_count |-> 0,
            items |-> <<>>],
           [kind |-> "network_error"] }

FetchImpls == {"builders", "scripts_main", "changelog_ci"}

InitFetch ==
    /\ ConfigurationGiven
    /\ impl \in FetchImpls
    /\ changelog_type = COMMIT_MESSAGE
    /\ group_config = <<>>
    /\ include_unlabeled_changes = TRUE
    /\ changelog_file_type \in
         IF impl = "changelog_ci" THEN {MARKDOWN_FILE} ELSE FileTypes
    /\ commit_changelog = TRUE
    /\ comment_changelog = FALSE
    /\ token = FALSE
    /\ event_name = WORKFLOW_DISPATCH_EVENT
    /\ pull_request_title = NoTitleGiven
    /\ release_version = InputVersion
    /\ changelog_file = NoFile
    /\ change_list = <<>>
    /\ parse_cache = [t \in FileTypes |-> NotCached]
    /\ last_call = NoCall
    /\ prev_call = NoCall
    /\ pc = "fetch"
    /\ response = NoResponse
    /\ rendered = NotRendered
    /\ rendered_markdown = NotRendered
    /\ published = <<>>
    /\ reported = {}
    /\ builds = 0

\* the commit source of the revision that runs
commit_source(revision, resp) ==
    CASE revision = "builders" ->
           CommitMessageChangelogBuilder_get_changes_after_last_release(resp)
      [] revision = "scripts_main" ->
           ChangelogCICommitMessage_get_changes_after_last_release(resp)
      [] revision = "changelog_ci" ->
           ChangelogCICommitMessage_get_changes_after_last_release_changelog_ci(resp)

release_date_source(revision, resp) ==
    CASE revision = "builders" -> get_latest_release_date(resp)
      [] revision = "scripts_main" -> get_latest_release_date_scripts_main(resp)
      [] revision = "changelog_ci" -> get_latest_release_date_changelog_ci(resp)

\* get_changes_after_last_release and the `if not changes` that follows it
FetchCommits ==
    /\ pc = "fetch"
    /\ \E rel \in ReleaseResponses, resp \in CommitResponses :
         IF rel.kind = "network_error"
         THEN /\ pc' = "fault"
              /\ UNCHANGED <<response, change_list, reported>>
         ELSE IF resp.kind = "network_error"
         THEN /\ pc' = "fault"
              /\ response' = resp
              /\ reported' = reported \cup release_date_source(impl, rel).reported
              /\ UNCHANGED change_list
         ELSE LET r == commit_source(impl, resp)
              IN /\ response' = resp
                 /\ change_list' = r.items
                 /\ reported' = reported \cup r.reported
                                \cup release_date_source(impl, rel).reported
                 /\ pc' = IF r.items # <<>> THEN "render"
                          ELSE IF impl = "builders" THEN "exit0"
                          ELSE "no_changes"
    /\ UNCHANGED <<static, release_version, parse_cache, last_call, prev_call,
                   rendered, rendered_markdown, changelog_file, published,
                   builds>>

\* parse_changelog of the revision that runs, on the fetched list
RenderCommits ==
    /\ pc = "render"
    /\ rendered' =
         CASE impl = "builders" ->
                CommitMessageChangelogBuilder_parse_changelog(
                    changelog_file_type, release_version, change_list)
           [] impl = "scripts_main" ->
                ChangelogCICommitMessage_parse_changelog_scripts_main(
                    changelog_file_type, release_version, change_list)
           [] impl = "changelog_ci" ->
                ChangelogCICommitMessage_parse_changelog_changelog_ci(
                    release_version, change_list)
    /\ Called(changelog_file_type, rendered')
    /\ pc' = "rendered"
    /\ UNCHANGED <<static, release_version, change_list, parse_cache, response,
                   rendered_markdown, changelog_file, published, reported,
                   builds>>

NextFetch ==
    \/ FetchCommits
    \/ RenderCommits

SpecFetch == InitFetch /\ [][NextFetch]_vars

----------------------------------------------------------------------------
(* The changelog file over several runs *)

\* an existing file with nothing in it
EmptyFile == <<>>

OneCommit ==
    <<[sha |-> <<"a","1","b","2","c","3","d","4","e","5">>, url |-> <<"c","1">>,
       message |-> <<"F","i","x"," ","A">>]>>

\* documents that runs write: string_data of run
WrittenStrings ==
    { ChangelogCICommitMessage_parse_changelog_scripts_main(
          MARKDOWN_FILE, InputVersion, OneCommit),
      ChangelogCICommitMessage_parse_changelog_scripts_main(
          MARKDOWN_FILE, TitleVersion, OneCommit),
      ChangelogCICommitMessage_parse_changelog_scripts_main(
          RESTRUCTUREDTEXT_FILE, InputVersion, OneCommit),
      ChangelogCICommitMessage_parse_changelog_scripts_main(
          RESTRUCTUREDTEXT_FILE, TitleVersion, OneCommit) }

InitFile ==
    /\ ConfigurationGiven
    /\ impl = "scripts_main"
    /\ changelog_type = COMMIT_MESSAGE
    /\ group_config = <<>>
    /\ include_unlabeled_changes = TRUE
    /\ changelog_file_type = MARKDOWN_FILE
    /\ commit_changelog = TRUE
    /\ comment_changelog = FALSE
    /\ token = FALSE
    /\ event_name = WORKFLOW_DISPATCH_EVENT
    /\ pull_request_title = NoTitleGiven
    /\ release_version = InputVersion
    /\ changelog_file \in {NoFile, EmptyFile, OldBody}
    /\ change_list = OneCommit
    /\ parse_cache = [t \in FileTypes |-> NotCached]
    /\ last_call = NoCall
    /\ prev_call = NoCall
    /\ pc = "write_file"
    /\ response = NoResponse
    /\ rendered = NotRendered
    /\ rendered_markdown = NotRendered
    /\ published = <<>>
    /\ reported = {}
    /\ builds = 0

\* _update_changelog_file(string_data), once in each run
UpdateChangelogFile ==
    /\ pc = "write_file"
    /\ Len(published) < MaxWrites
    /\ \E string_data \in WrittenStrings :
         /\ rendered' = string_data
         /\ changelog_file' = update_changelog_file(changelog_file, string_data)
         /\ published' = Append(published,
               [op |-> "file_write", body |-> string_data, ok |-> TRUE])
    /\ UNCHANGED <<static, release_version, change_list, parse_cache, last_call,
                   prev_call, pc, response, rendered_markdown, reported, builds>>

NextFile == UpdateChangelogFile

SpecFile == InitFile /\ [][NextFile]_vars

----------------------------------------------------------------------------
(* src/scripts/config.py: Configuration.create *)

Configuration_fields ==
    {"header_prefix", "commit_changelog", "comment_changelog",
     "pull_request_title_regex", "version_regex", "changelog_type",
     "group_config", "include_unlabeled_changes", "unlabeled_group_title",
     "changelog_filename", "git_committer_username", "git_committer_email",
     "release_version", "github_token"}

\* the defaults of the class body (the default version_regex is written as
\* one symbol: nothing looks inside it)
Configuration_defaults ==
    [header_prefix |-> Py("str", header_prefix),
     commit_changelog |-> Py("bool", TRUE),
     comment_changelog |-> Py("bool", FALSE),
     pull_request_title_regex |-> Py("str", <<"^","(","?","i",":","r","e","l","e","a","s","e",")">>),
     version_regex |-> Py("str", <<"semantic version pattern">>),
     changelog_type |-> Py("str", <<"p","u","l","l","_","r","e","q","u","e","s","t">>),
     group_config |-> Py("list", <<>>),
     include_unlabeled_changes |-> Py("bool", TRUE),
     unlabeled_group_title |-> Py("str", unlabeled_group_title),
     changelog_filename |-> Py("str", <<"C","H","A","N","G","E","L","O","G",".","m","d">>),
     git_committer_username |-> Py("str", <<"g","i","t","h","u","b","-","a","c","t","i","o","n","s","[","b","o","t","]">>),
     git_committer_email |-> Py("str", <<"g","i","t","h","u","b","-","a","c","t","i","o","n","s","[","b","o","t","]","@","u","s","e","r","s",".","n","o","r","e","p","l","y",".","g","i","t","h","u","b",".","c","o","m">>),
     release_version |-> None,
     github_token |-> None]

\* clean_header_prefix, clean_unlabeled_group_title, clean_git_committer_username,
\* clean_git_committer_email, clean_release_version, clean_github_token
clean_str(value) ==
    IF ~truthy(value) \/ ~isinstance_str(value) THEN None ELSE value

\* clean_commit_changelog, clean_comment_changelog, clean_include_unlabeled_changes:
\* `value not in [0, 1, False, True]` compares by Python's ==
clean_flag(value) ==
    IF ~(value.t = "bool" \/ (value.t = "int" /\ value.v \in {0, 1}))
    THEN None
    ELSE Py("bool", truthy(value))

\* re.compile(value) raises: TypeError for a value that is no pattern,
\* re.error for a pattern that leaves a character set open
re_compile_raises(value) ==
    \/ ~isinstance_str(value)
    \/ Cardinality({i \in DOMAIN value.v : value.v[i] = "["})
         # Cardinality({i \in DOMAIN value.v : value.v[i] = "]"})

\* clean_pull_request_title_regex, clean_version_regex
clean_regex(value) ==
    IF ~truthy(value) THEN None
    ELSE IF re_compile_raises(value) THEN None
    ELSE value

clean_changelog_type(value) ==
    IF ~(/\ truthy(value)
         /\ isinstance_str(value)
         /\ value.v \in {<<"p","u","l","l","_","r","e","q","u","e","s","t">>,
                         <<"c","o","m","m","i","t","_","m","e","s","s","a","g","e">>})
    THEN None
    ELSE value

\* a cleaning that lets every string through
clean_changelog_filename_any_extension(value) ==
    IF truthy(value) /\ isinstance_str(value) THEN value ELSE None

clean_changelog_filename(value) ==
    IF /\ truthy(value)
       /\ isinstance_str(value)
       /\ (endswith(value.v, <<".","m","d">>) \/ endswith(value.v, <<".","r","s","t">>))
    THEN value
    ELSE None

\* a cleaning that lets every dict through
clean_group_config_item_any_dict(value) ==
    IF value.t # "dict" THEN None ELSE value

clean_group_config_item(value) ==
    IF value.t # "dict" THEN None
    ELSE LET item_title == dict_get(value.v, "title")
             item_labels == dict_get(value.v, "labels")
         IN IF ~truthy(item_title) \/ ~isinstance_str(item_title) THEN None
            ELSE IF ~truthy(item_labels) \/ item_labels.t # "list" THEN None
            ELSE IF ~(\A i \in DOMAIN item_labels.v :
                          isinstance_str(item_labels.v[i]))
                 THEN None
            ELSE value

clean_group_config(value) ==
    IF ~truthy(value) THEN None
    ELSE IF value.t # "list" THEN None
    ELSE Py("list", SelectSeq(value.v,
                          LAMBDA item : truthy(clean_group_config_item(item))))

\* getattr(cls, f"clean_{key.lower()}", lambda x: None)(value)
clean_field(key, value) ==
    CASE key \in {"header_prefix", "unlabeled_group_title",
                  "git_committer_username", "git_committer_email",
                  "release_version", "github_token"} -> clean_str(value)
      [] key \in {"commit_changelog", "comment_changelog",
                  "include_unlabeled_changes"} -> clean_flag(value)
      [] key \in {"pull_request_title_regex", "version_regex"} -> clean_regex(value)
      [] key = "changelog_type" -> clean_changelog_type(value)
      [] key = "changelog_filename" -> clean_changelog_filename(value)
      [] key = "group_config" -> clean_group_config(value)
      [] OTHER -> None

clean_user_config(config) ==
    IF DOMAIN config = {} THEN config
    ELSE LET kept == {key \in DOMAIN config :
                        /\ key \in Configuration_fields
                        /\ clean_field(key, config[key]) # None}
         IN [key \in kept |-> clean_field(key, config[key])]

\* cls(**cleaned_user_config)
Configuration_new(cleaned_user_config) ==
    [field \in Configuration_fields |->
        IF field \in DOMAIN cleaned_user_config
        THEN cleaned_user_config[field]
        ELSE Configuration_defaults[field]]

\* the changelog_file_type property
Configuration_changelog_file_type(configuration) ==
    IF endswith(configuration["changelog_filename"].v, <<".","r","s","t">>)
    THEN RESTRUCTUREDTEXT_FILE
    ELSE MARKDOWN_FILE

\* what the loader made of the file: the open or the loader raising leaves {}
get_config_file_data(config_file_path, file) ==
    IF \/ endswith(config_file_path, <<"y","m","l">>)
       \/ endswith(config_file_path, <<"y","a","m","l">>)
       \/ endswith(config_file_path, <<"j","s","o","n">>)
    THEN IF file.kind = "loaded" THEN file.data ELSE Py("dict", <<>>)
    ELSE Py("dict", <<>>)

\* d.update(data): TypeError for data that cannot be iterated; TypeError or
\* ValueError for an element that is no key, value pair (every character of
\* a str, every scalar of a list); the keys of a dict replace those of d
dict_update(d, data) ==
    LET raises ==
          CASE data.t = "dict" -> FALSE
            [] data.t \in {"None", "bool", "int"} -> TRUE
            [] data.t = "str" -> Len(data.v) > 0
            [] data.t = "list" ->
                  \E i \in DOMAIN data.v :
                      ~(data.v[i].t \in {"str", "list"} /\ Len(data.v[i].v) = 2)
    IN IF raises THEN [raised |-> TRUE, value |-> d]
       ELSE IF data.t # "dict" THEN [raised |-> FALSE, value |-> d]
       ELSE [raised |-> FALSE,
             value |-> [key \in DOMAIN d \cup DOMAIN data.v |->
                           IF key \in DOMAIN data.v THEN data.v[key] ELSE d[key]]]

get_user_config(environ, file) ==
    LET inputs == [changelog_filename |-> dict_get(environ, "INPUT_CHANGELOG_FILENAME"),
                   git_committer_username |-> dict_get(environ, "INPUT_COMMITTER_USERNAME"),
                   git_committer_email |-> dict_get(environ, "INPUT_COMMITTER_EMAIL"),
                   release_version |-> dict_get(environ, "INPUT_RELEASE_VERSION"),
                   github_token |-> dict_get(environ, "INPUT_GITHUB_TOKEN")]
        config_file_path == dict_get(environ, "INPUT_CONFIG_FILE")
    IN IF ~truthy(config_file_path) THEN [raised |-> FALSE, value |-> inputs]
       ELSE dict_update(inputs, get_config_file_data(config_file_path.v, file))

\* group_config items: two that are valid, and one for each way of failing
GroupConfigItems ==
    { Py("dict", [title |-> Py("str", <<"B","u","g","s">>),
                  labels |-> Py("list", <<Py("str", <<"b","u","g">>), Py("str", <<"b","u","g","f","i","x">>)>>)]),
      Py("dict", [title |-> Py("str", <<"D","o","c","s">>),
                  labels |-> Py("list", <<Py("str", <<"d","o","c","s">>)>>),
                  color |-> Py("str", <<"r","e","d">>)]),
      Py("str", <<"t","e","s","t">>),
      Py("dict", [labels |-> Py("list", <<Py("str", <<"b","u","g">>)>>)]),
      Py("dict", [title |-> Py("str", <<>>), labels |-> Py("list", <<Py("str", <<"b","u","g">>)>>)]),
      Py("dict", [title |-> Py("int", 1), labels |-> Py("list", <<Py("str", <<"b","u","g">>)>>)]),
      Py("dict", [title |-> Py("str", <<"t","e","s","t">>)]),
      Py("dict", [title |-> Py("str", <<"t","e","s","t">>), labels |-> None]),
      Py("dict", [title |-> Py("str", <<"t","e","s","t">>), labels |-> Py("list", <<>>)]),
      Py("dict", [title |-> Py("str", <<"t","e","s","t">>), labels |-> Py("str", <<"b","u","g">>)]),
      Py("dict", [title |-> Py("str", <<"t","e","s","t">>),
                  labels |-> Py("list", <<Py("str", <<"b","u","g">>), Py("int", 1)>>)]) }

Filenames ==
    {Py("str", <<"C",".","m","d">>), Py("str", <<"C",".","r","s","t">>),
     Py("str", <<"C",".","x","y","z">>), Py("str", <<"r","s","t">>), Py("str", <<".","m","d">>)}

\* what a configuration file can hold for a key: values of every type, and
\* those that suit the key
ValuesFor(key) ==
    {None, Py("bool", TRUE), Py("bool", FALSE), Py("int", 0), Py("int", 1),
     Py("int", 2), Py("str", <<>>), Py("str", <<"t","e","s","t">>),
     Py("list", <<Py("int", 1)>>), Py("dict", [a |-> Py("int", 1)])} \cup
    CASE key = "changelog_type" ->
            {Py("str", <<"c","o","m","m","i","t","_","m","e","s","s","a","g","e">>),
             Py("str", <<"p","u","l","l","_","r","e","q","u","e","s","t">>)}
      [] key = "changelog_filename" -> Filenames
      [] key \in {"pull_request_title_regex", "version_regex"} ->
            {Py("str", <<"^","R","e","l","e","a","s","e">>), Py("str", <<"^","[">>)}
      [] key = "group_config" ->
            {Py("list", <<>>)}
            \cup {Py("list", l) : l \in [{1} -> GroupConfigItems]}
      [] OTHER -> {}

\* the dicts a loader returns: one key (a field, a property or a stranger),
\* or any key next to one of three
ConfigFileDicts ==
    UNION { UNION { { (k1 :> v1) @@ (k2 :> v2) :
                        v1 \in ValuesFor(k1), v2 \in ValuesFor(k2) }
                    : k2 \in {"changelog_filename", "comment_changelog",
                              "unknown_key"} }
            : k1 \in Configuration_fields
                       \cup {"changelog_file_type", "unknown_key"} }

\* the file at config_file_path: what the loader returned (a mapping, or
\* None for an empty YAML file, or any other JSON or YAML value), or an open
\* or a loader that raised
ConfigFiles(dicts) ==
    {[kind |-> "unreadable"]}
    \cup {[kind |-> "loaded", data |-> Py("dict", d)] : d \in dicts}

NoMappingFiles ==
    {[kind |-> "loaded", data |-> data] :
        data \in {None, Py("int", 3), Py("str", <<>>), Py("str", <<"a","b">>),
                  Py("list", <<>>), Py("list", <<Py("int", 1), Py("int", 2)>>)}}

EnvOf(filename, committer, version, path) ==
    [INPUT_CHANGELOG_FILENAME |-> filename,
     INPUT_COMMITTER_USERNAME |-> committer,
     INPUT_COMMITTER_EMAIL |-> committer,
     INPUT_RELEASE_VERSION |-> version,
     INPUT_GITHUB_TOKEN |-> committer,
     INPUT_CONFIG_FILE |-> path]

Envs ==
    {<<>>} \cup
    { EnvOf(filename, committer, version, path) :
        filename \in {None, Py("str", <<>>)} \cup Filenames,
        committer \in {None, Py("str", <<"b","o","t">>)},
        version \in {None, Py("str", InputVersion)},
        path \in {None, Py("str", <<>>), Py("str", <<"c",".","y","m","l">>),
                  Py("str", <<"c",".","y","a","m","l">>), Py("str", <<"c",".","j","s","o","n">>),
                  Py("str", <<"c",".","t","x","t">>)} }

\* the runs of create: any inputs with a file of little content, and two
\* sets of inputs with any file content (a group_config one longer than
\* MaxRules, so that a rejected item can stand between two that are kept)
ConfigInputs ==
    (Envs \X (NoMappingFiles \cup
              ConfigFiles({<<>>,
                           [changelog_filename |-> Py("str", <<"D",".","m","d">>),
                            header_prefix |-> Py("str", <<"t","e","s","t">>),
                            unknown_key |-> Py("int", 1)]})))
    \cup ({EnvOf(Py("str", <<"C",".","r","s","t">>), Py("str", <<"b","o","t">>),
                 Py("str", InputVersion), Py("str", <<"c",".","y","m","l">>)),
           EnvOf(None, None, None, Py("str", <<"c",".","j","s","o","n">>))}
          \X ConfigFiles(ConfigFileDicts \cup
                         {[group_config |-> Py("list", l)] :
                            l \in UNION { [1..n -> GroupConfigItems]
                                            : n \in 0..(MaxRules + 1) }}))

InitConfig ==
    /\ impl = "builders"
    /\ changelog_type = PULL_REQUEST
    /\ group_config = <<>>
    /\ include_unlabeled_changes = TRUE
    /\ changelog_file_type = MARKDOWN_FILE
    /\ commit_changelog = TRUE
    /\ comment_changelog = FALSE
    /\ token = FALSE
    /\ event_name = WORKFLOW_DISPATCH_EVENT
    /\ pull_request_title = NoTitleGiven
    /\ release_version = NoVersion
    /\ change_list = <<>>
    /\ parse_cache = [t \in FileTypes |-> NotCached]
    /\ last_call = NoCall
    /\ prev_call = NoCall
    /\ pc = "create"
    /\ response = NoResponse
    /\ rendered = NotRendered
    /\ rendered_markdown = NotRendered
    /\ changelog_file = NoFile
    /\ published = <<>>
    /\ reported = {}
    /\ builds = 0
    /\ \E input \in ConfigInputs :
         /\ env = input[1]
         /\ config_file = input[2]
    /\ user_config = <<>>
    /\ created = <<>>
    /\ DEFAULT_GROUP_CONFIG = <<>>
    /\ instances = <<>>

\* cls.get_user_config(env): an exception of dict.update leaves create
GetUserConfig ==
    /\ pc = "create"
    /\ LET r == get_user_config(env, config_file)
       IN /\ pc' = IF r.raised THEN "fault" ELSE "got_user_config"
          /\ user_config' = IF r.raised THEN user_config ELSE r.value
    /\ UNCHANGED <<given, env, config_file, created, release_version,
                   change_list, parse_cache, last_call, prev_call, response,
                   rendered, rendered_markdown, changelog_file, published,
                   reported, builds, DEFAULT_GROUP_CONFIG, instances>>

\* cls(**cls.clean_user_config(user_config))
Create ==
    /\ pc = "got_user_config"
    /\ created' = Configuration_new(clean_user_config(user_config))
    /\ pc' = "created"
    /\ UNCHANGED <<given, env, config_file, user_config, release_version,
                   change_list, parse_cache, last_call, prev_call, response,
                   rendered, rendered_markdown, changelog_file, published,
                   reported, builds, DEFAULT_GROUP_CONFIG, instances>>

NextConfig ==
    \/ GetUserConfig
    \/ Create

SpecConfig == InitConfig /\ [][NextConfig]_vars

----------------------------------------------------------------------------
(* Several configurations in one process: src/main.py                     *)
(* ChangelogCIConfiguration and config.py Configuration.  A group_config  *)
(* attribute names a list object: the one the default names, or a list of *)
(* its own.                                                               *)

\* the attribute names the list object of the default
TheDefaultList == [names |-> "DEFAULT_GROUP_CONFIG"]

\* the list an instance's group_config reads as
instance_group_config(instance) ==
    IF instance.group_config = TheDefaultList THEN DEFAULT_GROUP_CONFIG
    ELSE instance.group_config.v

\* the configuration files of the constructions: none, one that cannot be
\* read, some that hold no mapping, and mappings with a group_config
ConstructionFiles ==
    {[kind |-> "none"], [kind |-> "unreadable"],
     [kind |-> "loaded", data |-> None],
     [kind |-> "loaded", data |-> Py("list", <<Py("int", 1)>>)],
     [kind |-> "loaded", data |-> Py("dict", <<>>)]}
    \cup {[kind |-> "loaded", data |-> Py("dict", [group_config |-> Py("list", l)])] :
            l \in { <<>>,
                    <<Py("dict", [title |-> Py("str", <<"B","u","g","s">>),
                                  labels |-> Py("list", <<Py("str", <<"b","u","g">>)>>)])>>,
                    <<Py("dict", [title |-> Py("str", <<"D","o","c","s">>),
                                  labels |-> Py("list", <<Py("str", <<"d","o","c","s">>)>>)]),
                      Py("str", <<"t","e","s","t">>),
                      Py("dict", [title |-> Py("str", <<"t","e","s","t">>),
                                  labels |-> Py("list", <<>>)])>> }}

InitConstruct ==
    /\ ConfigurationGiven
    /\ impl \in {"main", "builders"}
    /\ changelog_type = PULL_REQUEST
    /\ group_config = <<>>
    /\ include_unlabeled_changes = TRUE
    /\ changelog_file_type = MARKDOWN_FILE
    /\ commit_changelog = TRUE
    /\ comment_changelog = FALSE
    /\ token = FALSE
    /\ event_name = WORKFLOW_DISPATCH_EVENT
    /\ pull_request_title = NoTitleGiven
    /\ release_version = NoVersion
    /\ change_list = <<>>
    /\ parse_cache = [t \in FileTypes |-> NotCached]
    /\ last_call = NoCall
    /\ prev_call = NoCall
    /\ pc = "construct"
    /\ response = NoResponse
    /\ rendered = NotRendered
    /\ rendered_markdown = NotRendered
    /\ changelog_file = NoFile
    /\ published = <<>>
    /\ reported = {}
    /\ builds = 0

\* src/main.py get_user_config: no file, or an open or a loader that raised,
\* gives None
ChangelogCIConfiguration_get_user_config(file) ==
    IF file.kind = "loaded" THEN file.data ELSE None

\* src/main.py validate_group_config_item: whether the item is appended
validate_group_config_item(item) ==
    IF item.t # "dict" THEN FALSE
    ELSE LET item_title == dict_get(item.v, "title")
             item_labels == dict_get(item.v, "labels")
         IN IF ~truthy(item_title) \/ ~isinstance_str(item_title) THEN FALSE
            ELSE IF ~truthy(item_labels) \/ item_labels.t # "list" THEN FALSE
            ELSE \A i \in DOMAIN item_labels.v : isinstance_str(item_labels.v[i])

\* src/main.py validate_configuration and validate_group_config: the items
\* that self.group_config.append is called with, in order
validate_group_config(user_raw_config) ==
    IF ~truthy(user_raw_config) THEN <<>>
    ELSE IF user_raw_config.t # "dict" THEN <<>>
    ELSE LET rules == dict_get(user_raw_config.v, "group_config")
         IN IF ~truthy(rules) THEN <<>>
            ELSE IF rules.t # "list" THEN <<>>
            ELSE SelectSeq(rules.v, validate_group_config_item)

\* src/main.py ChangelogCIConfiguration.__init__: self.group_config is the
\* list object of the class attribute, and every append goes to that object
ChangelogCIConfiguration_init ==
    /\ impl = "main"
    /\ pc = "construct"
    /\ Len(instances) < MaxConstructions
    /\ \E file \in ConstructionFiles :
         LET user_raw_config == ChangelogCIConfiguration_get_user_config(file)
         IN /\ DEFAULT_GROUP_CONFIG' =
                  DEFAULT_GROUP_CONFIG \o validate_group_config(user_raw_config)
            /\ instances' = Append(instances,
                  [file |-> file, group_config |-> TheDefaultList])
    /\ UNCHANGED <<given, env, config_file, user_config, created,
                   release_version, change_list, parse_cache, last_call,
                   prev_call, running>>

\* config.py Configuration.create: clean_group_config returns a list of its
\* own; without one the instance has the list object of the field default
Configuration_create ==
    /\ impl = "builders"
    /\ pc = "construct"
    /\ Len(instances) < MaxConstructions
    /\ \E file \in ConstructionFiles :
         LET environ == EnvOf(None, None, None,
                              IF file.kind = "none" THEN None
                              ELSE Py("str", <<"c",".","y","m","l">>))
             r == get_user_config(environ, file)
         IN IF r.raised
            THEN /\ pc' = "fault"
                 /\ UNCHANGED instances
            ELSE LET cleaned == clean_user_config(r.value)
                 IN /\ instances' = Append(instances,
                          [file |-> file,
                           group_config |->
                               IF "group_config" \in DOMAIN cleaned
                               THEN cleaned["group_config"]
                               ELSE TheDefaultList])
                    /\ pc' = pc
    /\ UNCHANGED <<given, env, config_file, user_config, created,
                   DEFAULT_GROUP_CONFIG, release_version, change_list,
                   parse_cache, last_call, prev_call, response, rendered,
                   rendered_markdown, changelog_file, published, reported,
                   builds>>

NextConstruct ==
    \/ ChangelogCIConfiguration_init
    \/ Configuration_create

SpecConstruct == InitConstruct /\ [][NextConstruct]_vars

----------------------------------------------------------------------------
(* Reading a rendered document *)

\* the positions at which sub occurs in s
Find(sub, s) ==
    {i \in 1..(Len(s) - Len(sub) + 1) : SubSeq(s, i, i + Len(sub) - 1) = sub}

StartsWith(s, prefix) ==
    Len(s) >= Len(prefix) /\ SubSeq(s, 1, Len(prefix)) = prefix

\* the lines of a document, without their line ends
SplitLines(s) ==
    LET nl == Ascending({i \in 1..Len(s) : s[i] = "\n"})
        n == Len(nl)
        last == IF n = 0 THEN 0 ELSE nl[n]
        whole == [k \in 1..n |->
                    SubSeq(s, (IF k = 1 THEN 1 ELSE nl[k - 1] + 1), nl[k] - 1)]
    IN IF last < Len(s) THEN Append(whole, SubSeq(s, last + 1, Len(s)))
       ELSE whole

\* the link text that identifies a pull request in a rendered line
Marker(file_type, r) ==
    <<"#">> \o FormatInt(r.number)
        \o (IF file_type = MARKDOWN_FILE THEN <<"]">> ELSE <<" ">>)

Occurrences(doc, file_type, r) == Find(Marker(file_type, r), doc)

\* a section title on a line of its own
TitleLine(file_type, title) ==
    IF file_type = MARKDOWN_FILE
    THEN <<"\n","#","#","#","#"," ">> \o title \o <<"\n">>
    ELSE <<"\n">> \o title \o <<"\n">>

RuleTitles == {r.title : r \in RulePool}
AllTitles == RuleTitles \cup {unlabeled_group_title}

HeadingAt(doc, file_type, title) == Find(TitleLine(file_type, title), doc)

HeadingsBefore(doc, file_type, q) ==
    UNION { { <<t, p>> : p \in {x \in HeadingAt(doc, file_type, t) : x < q} }
            : t \in AllTitles }

NoTitle == <<>>

\* the title of the section that position q of the document lies in
GroupAt(doc, file_type, q) ==
    LET H == HeadingsBefore(doc, file_type, q)
    IN IF H = {} THEN NoTitle
       ELSE (CHOOSE h \in H : \A g \in H : g[2] <= h[2])[1]

MatchingRules(r, rules) ==
    {k \in 1..Len(rules) : rules[k].labels \cap r.labels # {}}

Min(S) == CHOOSE x \in S : \A y \in S : x <= y

PullRequestCall == last_call # NoCall /\ changelog_type = PULL_REQUEST
CommitCall == last_call # NoCall /\ changelog_type = COMMIT_MESSAGE

----------------------------------------------------------------------------
(* Claims *)

\* C1: first match wins. Every record that parse_changelog (builders.py,
\* scripts/main.py) renders under a rule's heading is rendered under the
\* earliest rule of group_config whose labels intersect the record's labels,
\* whatever records precede it in the input.
C1_FirstMatchWins ==
    (PullRequestCall /\ impl \in {"builders", "scripts_main"} /\ group_config # <<>>)
    => \A i \in 1..Len(last_call.input) :
         LET r == last_call.input[i]
             doc == last_call.output
             ft == last_call.file_type
         IN \A q \in Occurrences(doc, ft, r) :
              LET t == GroupAt(doc, ft, q)
              IN (\E k \in 1..Len(group_config) : group_config[k].title = t)
                 => /\ MatchingRules(r, group_config) # {}
                    /\ t = group_config[Min(MatchingRules(r, group_config))].title

\* C1 in the builders.py revision alone
C1_FirstMatchWinsBuilders == impl = "builders" => C1_FirstMatchWins

\* C2: with a non-empty rule list every input record is rendered at most once:
\* no record line is emitted twice, so no record is under two headings.
C2_AtMostOneGroup ==
    (PullRequestCall /\ group_config # <<>>)
    => \A i \in 1..Len(last_call.input) :
         Cardinality(Occurrences(last_call.output, last_call.file_type,
                                 last_call.input[i])) <= 1

\* a record labelled {bug, docs} was rendered, once, under rules Bugs and Docs
C2_Witness ==
    /\ PullRequestCall /\ impl = "builders"
    /\ Len(group_config) = 2
    /\ group_config[1].labels = {"bug"} /\ group_config[2].labels = {"docs"}
    /\ \E i \in 1..Len(last_call.input) :
         /\ last_call.input[i].labels = {"bug", "docs"}
         /\ Cardinality(Occurrences(last_call.output, last_call.file_type,
                                    last_call.input[i])) = 1

CountNewlines(doc) == Cardinality({i \in 1..Len(doc) : doc[i] = "\n"})

\* the line ends of the document header: "# h\n\n", "h\n===\n\n"
HeaderNewlines(file_type) == IF file_type = MARKDOWN_FILE THEN 2 ELSE 3

\* C3: with an empty rule list parse_changelog renders every input record
\* exactly once, in input order, and no section heading: the document is the
\* header followed by one line per record.
C3_NoRulesRendersAll ==
    (PullRequestCall /\ group_config = <<>>)
    => LET doc == last_call.output
           ft == last_call.file_type
           input == last_call.input
       IN /\ \A i \in 1..Len(input) :
               Cardinality(Occurrences(doc, ft, input[i])) = 1
          /\ \A i, j \in 1..Len(input) :
               i < j => \A p \in Occurrences(doc, ft, input[i]) :
                          \A q \in Occurrences(doc, ft, input[j]) : p < q
          /\ \A t \in AllTitles : HeadingAt(doc, ft, t) = {}
          /\ Find(<<"#","#","#","#">>, doc) = {}
          /\ CountNewlines(doc) = HeaderNewlines(ft) + Len(input)

\* two records were rendered with no rules configured
C3_Witness ==
    /\ PullRequestCall /\ group_config = <<>>
    /\ Len(last_call.input) = 2
    /\ last_call.file_type = RESTRUCTUREDTEXT_FILE
    /\ \A i \in 1..2 : Occurrences(last_call.output, last_call.file_type,
                                   last_call.input[i]) # {}

\* C4: with rules and include_unlabeled_changes, the unlabeled group is
\* emitted exactly when some record matches no rule, holds exactly the records
\* whose labels intersect no rule's labels, in input order, and every input
\* record is rendered exactly once.
C4_UnlabeledGroup ==
    (PullRequestCall /\ impl \in {"builders", "scripts_main"}
        /\ group_config # <<>> /\ include_unlabeled_changes)
    => LET doc == last_call.output
           ft == last_call.file_type
           input == last_call.input
           Unmatched == {i \in 1..Len(input) : MatchingRules(input[i], group_config) = {}}
           InUnlabeled == {i \in 1..Len(input) :
                             \E q \in Occurrences(doc, ft, input[i]) :
                                 GroupAt(doc, ft, q) = unlabeled_group_title}
       IN /\ (HeadingAt(doc, ft, unlabeled_group_title) # {}) <=> (Unmatched # {})
          /\ InUnlabeled = Unmatched
          /\ \A i, j \in InUnlabeled :
               i < j => \A p \in Occurrences(doc, ft, input[i]) :
                          \A q \in Occurrences(doc, ft, input[j]) : p < q
          /\ \A i \in 1..Len(input) :
               Cardinality(Occurrences(doc, ft, input[i])) = 1

\* C4 in the builders.py revision alone
C4_UnlabeledGroupBuilders == impl = "builders" => C4_UnlabeledGroup

\* C5: with rules and include_unlabeled_changes false, a record whose labels
\* intersect no rule's labels is not rendered, and no unlabeled heading is.
C5_UnmatchedDropped ==
    (PullRequestCall /\ group_config # <<>> /\ ~include_unlabeled_changes)
    => LET doc == last_call.output
           ft == last_call.file_type
           input == last_call.input
       IN /\ \A i \in 1..Len(input) :
               MatchingRules(input[i], group_config) = {}
               => Occurrences(doc, ft, input[i]) = {}
          /\ HeadingAt(doc, ft, unlabeled_group_title) = {}

\* one record went to a rule's group, an unmatched one was dropped
C5_Witness ==
    /\ PullRequestCall /\ group_config # <<>> /\ ~include_unlabeled_changes
    /\ \E i, j \in 1..Len(last_call.input) :
         /\ MatchingRules(last_call.input[i], group_config) = {}
         /\ Occurrences(last_call.output, last_call.file_type,
                        last_call.input[j]) # {}

\* C6: in every RestructuredText document of parse_changelog (builders.py,
\* scripts/main.py) the underline of a heading is exactly as long as the
\* title line above it: "=" under the document header, "-" under every
\* rule-group title and under the unlabeled-group title.
C6_UnderlineLength ==
    (last_call # NoCall /\ impl \in {"builders", "scripts_main"}
        /\ last_call.file_type = RESTRUCTUREDTEXT_FILE)
    => LET L == SplitLines(last_call.output)
       IN /\ Len(L) >= 2
          /\ L[2] = Repeat("=", Len(L[1]))
          /\ \A i \in 2..Len(L) :
               L[i] \in AllTitles
               => /\ i < Len(L)
                  /\ L[i + 1] = Repeat("-", Len(L[i]))

\* C6 in the scripts/main.py revision alone
C6_UnderlineLengthScriptsMain == impl = "scripts_main" => C6_UnderlineLength

\* s[:7] as the claim reads it: the first seven characters, all of s when shorter
First7(s) == [j \in 1..(IF Len(s) < 7 THEN Len(s) ELSE 7) |-> s[j]]

\* the start of a record's line: the shown identifier, then the link
LineStart(file_type, shown, url) ==
    IF file_type = MARKDOWN_FILE
    THEN <<"*"," ","[">> \o shown \o <<"]","(">> \o url \o <<")",":"," ">>
    ELSE <<"*"," ",BACKQUOTE>> \o shown \o <<" ","<">> \o url
             \o <<">",BACKQUOTE,"_","_",":"," ">>

RecordLines(doc) ==
    LET L == SplitLines(doc)
    IN {L[i] : i \in {k \in 1..Len(L) : StartsWith(L[k], <<"*">>)}}

\* C7: a commit's line shows the sha cut to its first 7 characters (all of it
\* when shorter), in both formats; a pull request's line shows the whole number.
C7_IdentifierShown ==
    /\ CommitCall
       => LET doc == last_call.output
              ft == last_call.file_type
              input == last_call.input
          IN /\ \A i \in 1..Len(input) :
                  \E l \in RecordLines(doc) :
                      l = LineStart(ft, First7(input[i].sha), input[i].url)
                              \o input[i].message
             /\ Cardinality(RecordLines(doc)) = Len(input)
    /\ PullRequestCall
       => LET doc == last_call.output
              ft == last_call.file_type
              input == last_call.input
          IN \A l \in RecordLines(doc) :
                \E i \in 1..Len(input) :
                    l = LineStart(ft, <<"#">> \o FormatInt(input[i].number),
                                  input[i].url) \o input[i].title

\* C7 in the builders.py and scripts/main.py revisions alone
C7_IdentifierShownSevenRevisions == impl # "main" => C7_IdentifierShown

\* C8: two parse_changelog calls in a row with the same format, version and
\* change-list object return the same string.
C8_Deterministic ==
    (last_call # NoCall /\ prev_call # NoCall
        /\ last_call.file_type = prev_call.file_type)
    => last_call.output = prev_call.output

\* C8 in the builders.py and scripts/main.py revisions alone
C8_DeterministicCopyingRevisions == impl # "main" => C8_Deterministic

----------------------------------------------------------------------------
(* The no-changes path *)

\* the change source answered and the change list built from it is empty
ZeroRecords == response.kind = "response" /\ change_list = <<>>

NoChangesOutcomes == {"no_changes", "exit0"}

\* C9: when the change source returns zero records the build ends in the
\* no-changes outcome; the step that gets there renders nothing, nothing has
\* been or is written, committed, pushed, opened or commented in that run,
\* and no step follows.
C9_ZeroRecordsNoChanges ==
    /\ [](ZeroRecords => pc \in NoChangesOutcomes /\ published = <<>>)
    /\ [][ZeroRecords' => /\ rendered' = rendered
                          /\ rendered_markdown' = rendered_markdown
                          /\ parse_cache' = parse_cache
                          /\ changelog_file' = changelog_file
                          /\ published' = published]_vars
    /\ [][~ZeroRecords]_vars

\* a run that would have written the changelog file, had there been records
C9_Witness ==
    /\ ZeroRecords
    /\ response.status_code = 200
    /\ pc = "no_changes"
    /\ commit_changelog
    /\ changelog_file = OldBody

\* the change-source call failed: requests.get raised, or the status is not 200
ChangeSourceFailed ==
    \/ response.kind = "network_error"
    \/ response.kind = "response" /\ response.status_code # 200

\* C10: any failure of the change-source call (a network error or a non-2xx
\* status) is reported and treated as zero records, so the build takes the
\* no-changes path and raises no fault, for the pull-request source and the
\* commit source alike.
C10_FailureIsZeroRecords ==
    ChangeSourceFailed => pc \in NoChangesOutcomes

\* the part of C10 about a status other than 200
C10_StatusFailureIsZeroRecords ==
    response.kind = "response" /\ response.status_code # 200
        => /\ pc \in NoChangesOutcomes
           /\ change_list = <<>>
           /\ \E m \in reported :
                  m \in {"error: could not get pull requests",
                         "error: could not get commits"}

----------------------------------------------------------------------------
(* Aborts *)

\* both publishing flags are off, or there is no release version
ConfigurationContradiction ==
    \/ ~commit_changelog /\ ~comment_changelog
    \/ release_version = NoVersion

\* C11: with both publishing flags false, or with no release version
\* resolved, run() aborts: it reports a diagnostic that the no-changes
\* outcome never carries, the change source is never queried, nothing is
\* rendered, no publisher operation is invoked, and no step follows.
C11_FatalAbort ==
    /\ [](impl = "scripts_main" /\ pc # "start" /\ ConfigurationContradiction
            => pc = "aborted")
    /\ [](pc = "aborted"
            => /\ response = NoResponse
               /\ change_list = <<>>
               /\ rendered = NotRendered
               /\ rendered_markdown = NotRendered
               /\ published = <<>>
               /\ reported \cap AbortDiagnostics # {})
    /\ [](pc \in NoChangesOutcomes => reported \cap AbortDiagnostics = {})
    /\ [][pc # "aborted"]_vars

\* an aborted run on a pull request whose title matches but holds no version
C11_Witness ==
    /\ pc = "aborted"
    /\ commit_changelog
    /\ event_name = PULL_REQUEST_EVENT
    /\ pull_request_title.matches
    /\ release_version = NoVersion
    /\ "error: no version number in the pull request title" \in reported

----------------------------------------------------------------------------
(* Exit status *)

\* the change source answered 200 and nothing is left to do
NothingToDo == ZeroRecords /\ response.status_code = 200

\* C12: the exit status tells the outcomes apart: a run with zero changes
\* exits with success, a run ended by a configuration failure or by a
\* network or HTTP failure of the change source exits with a status other
\* than zero.
C12_ExitStatus ==
    pc \in EndedAt
    => /\ NothingToDo => exit_status(pc) = 0
       /\ pc = "aborted" \/ ChangeSourceFailed => exit_status(pc) # 0

\* the parts of C12 about zero changes and about a network failure
C12_ExitStatusOfNothingToDoAndNetwork ==
    pc \in EndedAt
    => /\ NothingToDo => exit_status(pc) = 0
       /\ response.kind = "network_error" => exit_status(pc) # 0

----------------------------------------------------------------------------
(* Publishing channels *)

Invoked(name) == \E i \in 1..Len(published) : published[i].op = name

\* the file write, the pull-request creation and the comment post that the
\* configuration and the event enable have all been attempted
EnabledStepsAttempted ==
    /\ commit_changelog
       => /\ Invoked("file_write")
          /\ event_name # PULL_REQUEST_EVENT => Invoked("create_pull_request")
    /\ comment_changelog /\ event_name = PULL_REQUEST_EVENT /\ token
       => Invoked("comment")

\* a step neither takes back an operation already invoked nor the file
\* already written
NothingUndone ==
    /\ Len(published') >= Len(published)
    /\ SubSeq(published', 1, Len(published)) = published
    /\ Invoked("file_write") => changelog_file' = changelog_file

\* C13: publishing failures are independent per channel: a failed git
\* commit/push, pull-request creation or comment post takes back nothing
\* that was published before it, and every other enabled publishing step of
\* the run is still attempted.
C13_IndependentChannels ==
    /\ [](pc \in {"done", "system_exit"} => EnabledStepsAttempted)
    /\ [][NothingUndone]_vars

\* C13 in scripts/main.py, whose git steps ignore the return code: once
\* rendering is done, a run that has ended attempted every enabled step
C13_IndependentChannelsScriptsMain ==
    /\ [](impl = "scripts_main" /\ pc = "done" => EnabledStepsAttempted)
    /\ [](impl = "scripts_main" /\ pc = "fault" /\ rendered # NotRendered
            => Invoked("create_pull_request") \/ Invoked("comment"))
    /\ [][NothingUndone]_vars

----------------------------------------------------------------------------
(* Merge commits *)

IsMergeMessage(message) ==
    \/ StartsWith(message, <<"M","e","r","g","e"," ","p","u","l","l"," ",
                             "r","e","q","u","e","s","t"," ","#">>)
    \/ StartsWith(message, <<"M","e","r","g","e"," ","b","r","a","n","c","h">>)

\* the positions, in fetched order, of the commits that are no merge commits
KeptPositions(items) ==
    Ascending({i \in 1..Len(items) : ~IsMergeMessage(items[i].message)})

\* C14: in commit mode the change list the commit source returns holds
\* exactly the fetched commits whose message begins with neither
\* "Merge pull request #" nor "Merge branch", in fetched order, so that no
\* merge commit reaches rendering.
C14_NoMergeCommits ==
    (changelog_type = COMMIT_MESSAGE /\ response.kind = "response"
        /\ response.status_code = 200)
    => LET kept == KeptPositions(response.items)
       IN /\ Len(change_list) = Len(kept)
          /\ \A k \in 1..Len(kept) :
                /\ change_list[k].sha = response.items[kept[k]].sha
                /\ change_list[k].message = response.items[kept[k]].message
                /\ change_list[k].url = response.items[kept[k]].html_url
          /\ last_call # NoCall
             => \A i \in 1..Len(last_call.input) :
                   ~IsMergeMessage(last_call.input[i].message)

\* C14 in the builders.py and scripts/main.py revisions alone
C14_NoMergeCommitsFilteringRevisions ==
    impl # "changelog_ci" => C14_NoMergeCommits

----------------------------------------------------------------------------
(* The changelog file *)

BlankLine == <<"\n", "\n">>

\* the string the latest write was given
Written == published'[Len(published')].body

RECURSIVE NewestFirst(_, _)
\* the first n written strings, the newest on top, a blank line between them
NewestFirst(writes, n) ==
    IF n = 0 THEN <<>>
    ELSE IF n = 1 THEN writes[1].body
    ELSE writes[n].body \o BlankLine \o NewestFirst(writes, n - 1)

\* every written changelog is there, newest first, above what the file
\* held at the start
HoldsEveryWrite ==
    published # <<>>
    => \E start \in {<<>>, OldBody} :
          changelog_file = NewestFirst(published, Len(published))
                             \o (IF start = <<>> THEN <<>>
                                 ELSE BlankLine \o start)

\* C15: a write prepends: a file that does not exist is created with
\* exactly the new content; otherwise the file afterwards is the new
\* content, a blank line ("\n\n"), then the complete prior content; after
\* any sequence of writes every written changelog is there, newest first.
C15_WritePrepends ==
    /\ [][changelog_file' =
            IF changelog_file = NoFile THEN Written
            ELSE Written \o BlankLine \o changelog_file]_vars
    /\ []HoldsEveryWrite

\* C15 with the empty file told apart: a file that does not exist or is
\* empty holds exactly the new content afterwards; a file with content holds
\* the new content, a blank line ("\n\n"), then the complete prior content;
\* after any sequence of writes every written changelog is there, newest
\* first.
C15_WritePrependsToContent ==
    /\ [][changelog_file' =
            IF changelog_file \in {NoFile, EmptyFile} THEN Written
            ELSE Written \o BlankLine \o changelog_file]_vars
    /\ []HoldsEveryWrite

\* three writes on top of a file that had content
C15_Witness ==
    /\ Len(published) = 3
    /\ published[1].body # published[3].body
    /\ Len(changelog_file) > Len(OldBody) + Len(published[1].body)
         + Len(published[2].body) + Len(published[3].body)
    /\ SubSeq(changelog_file, Len(changelog_file) - Len(OldBody) + 1,
              Len(changelog_file)) = OldBody

----------------------------------------------------------------------------
(* The format of what is published *)

\* a Markdown document opens with "# ", a RestructuredText one with the
\* header itself
IsMarkdown(doc) == Len(doc) >= 2 /\ doc[1] = "#" /\ doc[2] = " "

\* C16: every body handed to the comment poster or to the pull-request
\* opener is the Markdown rendering of the change set, also when the
\* configured file type is RestructuredText; what is written to the
\* changelog file is the rendering in the configured file type.
C16_PublishedFormats ==
    impl = "scripts_main"
    => \A i \in 1..Len(published) :
          /\ published[i].op \in {"create_pull_request", "comment"}
             => /\ published[i].body = run_parse_changelog(MARKDOWN_FILE)
                /\ IsMarkdown(published[i].body)
          /\ published[i].op = "file_write"
             => /\ published[i].body = run_parse_changelog(changelog_file_type)
                /\ IsMarkdown(published[i].body)
                     <=> changelog_file_type = MARKDOWN_FILE

\* a RestructuredText file was written and a pull request opened
C16_Witness ==
    /\ impl = "scripts_main"
    /\ changelog_file_type = RESTRUCTUREDTEXT_FILE
    /\ ~comment_changelog
    /\ Invoked("file_write")
    /\ Invoked("create_pull_request")

----------------------------------------------------------------------------
(* Configuration.create *)

FlagFields == {"commit_changelog", "comment_changelog", "include_unlabeled_changes"}
RegexFields == {"pull_request_title_regex", "version_regex"}
StringFields == Configuration_fields \ (FlagFields \cup {"group_config"})

\* a value the user gave for a field that is missing or invalid: the wrong
\* type, an unknown changelog_type, a flag that is no boolean (0 and 1 count
\* as booleans, as they do for Python's ==), a regex that does not compile,
\* a group_config that is no list
MissingOrInvalid(field, value) ==
    \/ value = None
    \/ field \in StringFields /\ value.t # "str"
    \/ field = "changelog_type" /\ value.t = "str"
         /\ value.v \notin {<<"p","u","l","l","_","r","e","q","u","e","s","t">>, <<"c","o","m","m","i","t","_","m","e","s","s","a","g","e">>}
    \/ field \in FlagFields /\ ~(value.t = "bool" \/ value = Py("int", 0) \/ value = Py("int", 1))
    \/ field \in RegexFields /\ re_compile_raises(value)
    \/ field = "group_config" /\ value.t # "list"

\* every field whose given value is missing or invalid holds its default,
\* whatever the other fields were given, and only the fields are there
InvalidValuesFallBack ==
    /\ DOMAIN created = Configuration_fields
    /\ \A field \in Configuration_fields :
          MissingOrInvalid(field, dict_get(user_config, field))
          => created[field] = Configuration_defaults[field]

\* C17: Configuration.create never fails on user input: a missing or invalid
\* value (wrong type, unknown changelog_type, non-boolean flag, uncompilable
\* regex, non-list group_config) leaves that field at its default,
\* independently of the other fields, and keys that are no configuration
\* fields are ignored.
C17_CreateNeverFails ==
    /\ pc # "fault"
    /\ pc = "created" => InvalidValuesFallBack

\* the part of C17 that holds: whenever create returns, the invalid values
\* have fallen back to the defaults
C17_CreatedFallsBack ==
    pc = "created" => InvalidValuesFallBack

----------------------------------------------------------------------------
(* group_config *)

\* a rule with a non-empty string title and a non-empty list of string labels
ValidRule(item) ==
    /\ item.t = "dict"
    /\ {"title", "labels"} \subseteq DOMAIN item.v
    /\ item.v["title"].t = "str"
    /\ Len(item.v["title"].v) > 0
    /\ item.v["labels"].t = "list"
    /\ Len(item.v["labels"].v) > 0
    /\ \A i \in DOMAIN item.v["labels"].v : item.v["labels"].v[i].t = "str"

\* C18: after Configuration.create every rule in group_config has a
\* non-empty string title and a non-empty list of labels that are all
\* strings; the items of the given list that fail this are rejected one by
\* one, and the valid ones are kept in their original order.
C18_GroupConfigValidated ==
    pc = "created"
    => LET rules == created["group_config"]
           supplied == dict_get(user_config, "group_config")
       IN /\ rules.t = "list"
          /\ \A i \in DOMAIN rules.v : ValidRule(rules.v[i])
          /\ supplied.t = "list" => rules.v = SelectSeq(supplied.v, ValidRule)

\* a rejected item stood between two valid ones, which were kept
C18_Witness ==
    /\ pc = "created"
    /\ LET supplied == dict_get(user_config, "group_config")
       IN /\ supplied.t = "list"
          /\ Len(supplied.v) = 3
          /\ ValidRule(supplied.v[1])
          /\ ~ValidRule(supplied.v[2])
          /\ ValidRule(supplied.v[3])
          /\ supplied.v[1] # supplied.v[3]
          /\ created["group_config"].v = <<supplied.v[1], supplied.v[3]>>

----------------------------------------------------------------------------
(* changelog_filename and changelog_file_type *)

HasChangelogExtension(name) ==
    \/ endswith(name, <<".","m","d">>)
    \/ endswith(name, <<".","r","s","t">>)

\* C19: after Configuration.create the changelog_filename ends with ".md" or
\* ".rst": a given name that does is kept, any other is replaced by the
\* default CHANGELOG.md; changelog_file_type is RestructuredText exactly
\* when the filename ends with ".rst", and Markdown otherwise.
C19_FilenameAndFileType ==
    pc = "created"
    => LET name == created["changelog_filename"]
           supplied == dict_get(user_config, "changelog_filename")
       IN /\ name.t = "str"
          /\ HasChangelogExtension(name.v)
          /\ name = IF supplied.t = "str" /\ HasChangelogExtension(supplied.v)
                    THEN supplied
                    ELSE Py("str", <<"C","H","A","N","G","E","L","O","G",".","m","d">>)
          /\ Configuration_changelog_file_type(created) \in FileTypes
          /\ Configuration_changelog_file_type(created) = RESTRUCTUREDTEXT_FILE
               <=> endswith(name.v, <<".","r","s","t">>)

\* a name with another extension was given and replaced by the default
C19_Witness ==
    /\ pc = "created"
    /\ dict_get(user_config, "changelog_filename").t = "str"
    /\ Len(dict_get(user_config, "changelog_filename").v) > 0
    /\ ~HasChangelogExtension(dict_get(user_config, "changelog_filename").v)
    /\ created["changelog_filename"] = Configuration_defaults["changelog_filename"]
    /\ Configuration_changelog_file_type(created) = MARKDOWN_FILE

----------------------------------------------------------------------------
(* get_user_config *)

\* the input each input-derived key is read from
InputOf ==
    [changelog_filename |-> "INPUT_CHANGELOG_FILENAME",
     git_committer_username |-> "INPUT_COMMITTER_USERNAME",
     git_committer_email |-> "INPUT_COMMITTER_EMAIL",
     release_version |-> "INPUT_RELEASE_VERSION",
     github_token |-> "INPUT_GITHUB_TOKEN"]

\* a config file path is given
ConfigFileGiven ==
    /\ dict_get(env, "INPUT_CONFIG_FILE").t = "str"
    /\ Len(dict_get(env, "INPUT_CONFIG_FILE").v) > 0

\* the keys and values the given config file holds: those of the mapping a
\* JSON or YAML file was loaded as; any other file holds none
FileKeys ==
    IF /\ ConfigFileGiven
       /\ \E ext \in {<<"y","m","l">>, <<"y","a","m","l">>, <<"j","s","o","n">>} :
             endswith(dict_get(env, "INPUT_CONFIG_FILE").v, ext)
       /\ config_file.kind = "loaded"
       /\ config_file.data.t = "dict"
    THEN config_file.data.v
    ELSE <<>>

\* the user configuration holds the keys of the file with the file's values
\* and the five input-derived keys the file does not hold, and no other
MergedFileOverInputs ==
    /\ DOMAIN user_config = DOMAIN InputOf \cup DOMAIN FileKeys
    /\ \A key \in DOMAIN FileKeys : user_config[key] = FileKeys[key]
    /\ \A key \in DOMAIN InputOf \ DOMAIN FileKeys :
          user_config[key] = dict_get(env, InputOf[key])

\* C20: get_user_config merges with fixed priority: when a config file is
\* given, a key present in both the inputs and the file takes the file's
\* value, and keys present in only one source are kept; with no config file
\* path the result is exactly the five input-derived keys.
C20_MergePriority ==
    pc # "create"
    => /\ MergedFileOverInputs
       /\ ~ConfigFileGiven => DOMAIN user_config = DOMAIN InputOf

\* the part of C20 that holds: whenever get_user_config returns, its result
\* is the file's keys over the input-derived ones
C20_ResultMergesFileOverInputs ==
    pc \in {"got_user_config", "created"}
    => /\ MergedFileOverInputs
       /\ ~ConfigFileGiven => DOMAIN user_config = DOMAIN InputOf

----------------------------------------------------------------------------
(* The order of lines and of headings *)

\* C21: within every rendered group (each rule group and the unlabeled
\* group) the record lines appear in the same relative order as the records
\* had in the input change list.
C21_OrderWithinGroups ==
    PullRequestCall
    => LET doc == last_call.output
           ft == last_call.file_type
           input == last_call.input
       IN \A i, j \in 1..Len(input) :
             i < j
             => \A p \in Occurrences(doc, ft, input[i]) :
                   \A q \in Occurrences(doc, ft, input[j]) :
                       GroupAt(doc, ft, p) = GroupAt(doc, ft, q) => p < q

\* two records were rendered under the heading of one rule
C21_Witness ==
    /\ PullRequestCall /\ impl = "builders"
    /\ Len(group_config) > 0
    /\ Len(last_call.input) = 2
    /\ \E p \in Occurrences(last_call.output, last_call.file_type, last_call.input[1]) :
         \E q \in Occurrences(last_call.output, last_call.file_type, last_call.input[2]) :
             /\ GroupAt(last_call.output, last_call.file_type, p) = group_config[1].title
             /\ GroupAt(last_call.output, last_call.file_type, q) = group_config[1].title

\* the records rendered in the section of a title
RenderedUnder(doc, file_type, input, title) ==
    {i \in 1..Len(input) :
        \E q \in Occurrences(doc, file_type, input[i]) :
            GroupAt(doc, file_type, q) = title}

----------------------------------------------------------------------------
(* The Markdown document *)

\* * [#{number}]({url}): {title}\n
MarkdownRecordLine(r) ==
    <<"*"," ","[","#">> \o FormatInt(r.number) \o <<"]","(">> \o r.url
        \o <<")",":"," ">> \o r.title \o <<"\n">>

RECURSIVE MarkdownRecordLines(_, _)
\* the lines of the records at the given positions of the input, ascending
MarkdownRecordLines(input, positions) ==
    IF positions = {} THEN <<>>
    ELSE MarkdownRecordLine(input[Min(positions)])
             \o MarkdownRecordLines(input, positions \ {Min(positions)})

RECURSIVE MarkdownSections(_, _, _)
\* for each heading of the document, in the order they stand in it:
\* \n#### {title}\n\n and the lines of the records of that section
MarkdownSections(doc, input, heads) ==
    IF heads = {} THEN <<>>
    ELSE LET first == Min(heads)
             title == CHOOSE t \in AllTitles : first \in HeadingAt(doc, MARKDOWN_FILE, t)
         IN <<"\n","#","#","#","#"," ">> \o title \o <<"\n","\n">>
                \o MarkdownRecordLines(input,
                       RenderedUnder(doc, MARKDOWN_FILE, input, title))
                \o MarkdownSections(doc, input, heads \ {first})

\* the document the claim describes, for the groups the document shows
MarkdownDocument(doc, input, version) ==
    <<"#"," ">> \o header(version) \o <<"\n","\n">>
        \o MarkdownRecordLines(input, RenderedUnder(doc, MARKDOWN_FILE, input, NoTitle))
        \o MarkdownSections(doc, input,
               UNION {HeadingAt(doc, MARKDOWN_FILE, t) : t \in AllTitles})

\* # Version: 1.2.0\n\n* [#3](u3): Fix X\n* [#5](u5): Add Y\n
ScenarioDocument ==
    <<"#"," ","V","e","r","s","i","o","n",":"," ","1",".","2",".","0",
    "\n","\n","*"," ","[","#","3","]","(","u","3",")",":"," ","F","i",
    "x"," ","X","\n","*"," ","[","#","5","]","(","u","5",")",":"," ",
    "A","d","d"," ","Y","\n">>

\* C23: a Markdown pull-request document consists of exactly the header
\* "# {header}\n\n", then for each emitted group in order the heading
\* "\n#### {title}\n\n" immediately followed by the group's record lines
\* "* [#{number}]({url}): {title}\n", with nothing else inserted (no extra
\* blank line between a heading and its first record line); with no rules
\* and records 3 and 5 the output is exactly the document of the scenario.
C23_MarkdownDocument ==
    (PullRequestCall /\ last_call.file_type = MARKDOWN_FILE)
    => /\ last_call.output
            = MarkdownDocument(last_call.output, last_call.input, release_version)
       /\ (/\ group_config = <<>>
           /\ Len(last_call.input) = 2
           /\ last_call.input[1].number = 3
           /\ last_call.input[2].number = 5)
          => last_call.output = ScenarioDocument

\* C23 in the builders.py and scripts/main.py revisions alone
C23_MarkdownDocumentCopyingRevisions == impl # "main" => C23_MarkdownDocument

----------------------------------------------------------------------------
(* The caller's change list *)

\* C24: parse_changelog leaves the caller's change list unchanged (same
\* records, same order), so rendering one format never alters the records
\* seen by a later rendering of the other format: the Markdown and the
\* RestructuredText rendering of one build list exactly the same records in
\* the same groups.
C24_ChangeListUnchanged ==
    /\ PullRequestCall => change_list = last_call.input
    /\ (PullRequestCall /\ prev_call # NoCall
            /\ prev_call.file_type # last_call.file_type)
       => /\ prev_call.input = last_call.input
          /\ \A t \in AllTitles \cup {NoTitle} :
                RenderedUnder(prev_call.output, prev_call.file_type,
                              prev_call.input, t)
                  = RenderedUnder(last_call.output, last_call.file_type,
                                  last_call.input, t)

\* C24 in the builders.py and scripts/main.py revisions alone
C24_ChangeListUnchangedCopyingRevisions == impl # "main" => C24_ChangeListUnchanged

----------------------------------------------------------------------------
(* The early break *)

RECURSIVE builders_for_config_without_break(_, _, _, _, _)
\* for config in group_config, builders.py 169-198, without lines 172-173
builders_for_config_without_break(file_type, rules, k, changelog_string, new_changes) ==
    IF k > Len(rules)
    THEN [changelog_string |-> changelog_string, new_changes |-> new_changes]
    ELSE LET r == builders_for_pull_request(file_type, rules[k], new_changes, 1,
                                            <<>>, new_changes)
         IN builders_for_config_without_break(
                file_type, rules, k + 1,
                IF r.items_string # <<>>
                THEN changelog_string \o builders_group_heading(file_type, rules[k])
                         \o r.items_string
                ELSE changelog_string,
                r.new_changes)

\* PullRequestChangelogBuilder.parse_changelog with that loop
parse_changelog_without_break(file_type, version, changes, rules, unlabeled) ==
    LET changelog_string == builders_document_header(file_type, version)
    IN IF rules # <<>>
       THEN LET g == builders_for_config_without_break(
                         file_type, rules, 1, changelog_string, changes)
            IN IF g.new_changes # <<>> /\ unlabeled
               THEN g.changelog_string \o builders_unlabeled_heading(file_type)
                        \o builders_join_lines(file_type, g.new_changes, 1)
               ELSE g.changelog_string
       ELSE changelog_string \o builders_join_lines(file_type, changes, 1)

\* C25: the short-circuit that stops evaluating rules once the remaining
\* list is empty never alters the output: for every record list, rule list
\* and include_unlabeled setting the rendered document equals the one the
\* same algorithm produces with the early break removed.
C25_BreakAltersNothing ==
    (PullRequestCall /\ impl = "builders")
    => /\ last_call.output
            = parse_changelog_without_break(
                  last_call.file_type, release_version, last_call.input,
                  group_config, include_unlabeled_changes)
       /\ \A ft \in FileTypes :
             PullRequestChangelogBuilder_parse_changelog(
                 ft, release_version, change_list, group_config,
                 include_unlabeled_changes)
               = parse_changelog_without_break(
                     ft, release_version, change_list, group_config,
                     include_unlabeled_changes)

\* the break was taken: the first of two rules matched every record
C25_Witness ==
    /\ PullRequestCall /\ impl = "builders"
    /\ Len(group_config) = 2
    /\ Len(last_call.input) = 2
    /\ \A i \in 1..2 : 1 \in MatchingRules(last_call.input[i], group_config)
    /\ \E i \in 1..2 : 2 \in MatchingRules(last_call.input[i], group_config)

----------------------------------------------------------------------------
(* The phases of a run *)

\* the phase a position of run or build belongs to
Phase(at) ==
    CASE at \in {"start", "fetch"} -> "NotStarted"
      [] at = "render" -> "ChangesFetched"
      [] at \in {"write_file", "commit", "create_pr", "comment"} -> "Rendered"
      [] at \in {"done", "built"} -> "Done"
      [] at \in {"aborted", "no_changes", "exit0"} -> "Aborted"
      [] at = "fault" -> "Fault"

PhaseRank(phase) ==
    CASE phase = "NotStarted" -> 0
      [] phase = "ChangesFetched" -> 1
      [] phase = "Rendered" -> 2
      [] phase \in {"Done", "Aborted", "Fault"} -> 3

\* the place of a publisher operation in the publish phase
PublishRank(op) ==
    CASE op = "file_write" -> 1
      [] op \in {"git_checkout_new_branch", "git_commit_push"} -> 2
      [] op = "create_pull_request" -> 3
      [] op = "comment" -> 4

\* a step goes forward through the phases, and only a new build() leaves
\* Done
PhasesGoForward ==
    \/ PhaseRank(Phase(pc')) >= PhaseRank(Phase(pc))
         /\ (Phase(pc) \in {"Done", "Aborted", "Fault"} => pc' = pc)
    \/ pc = "built" /\ builds' = builds + 1

\* a publisher operation is invoked in the Rendered phase alone
PublishedWhenRendered ==
    published' # published
        => /\ Phase(pc) = "Rendered"
           /\ rendered # NotRendered
           /\ rendered_markdown # NotRendered

PublishedInOrder ==
    \A i, j \in 1..Len(published) :
        i < j => PublishRank(published[i].op) <= PublishRank(published[j].op)

\* C26: every run follows NotStarted -> ChangesFetched -> Rendered -> Done or
\* ends in Aborted: no publisher operation occurs before rendering has
\* completed, none occurs after an abort, within the publish phase the file
\* write precedes the git commit/push, which precedes the pull-request
\* creation, with the comment post last; and every run reaches Done or
\* Aborted.
C26_RunPhases ==
    /\ [][PhasesGoForward /\ PublishedWhenRendered]_vars
    /\ [](Phase(pc) = "Aborted" => published = <<>>)
    /\ []PublishedInOrder
    /\ <>(Phase(pc) \in {"Done", "Aborted"})

\* C26 but for the runs an uncaught exception of requests ends
C26_RunPhasesOrFault ==
    /\ [][PhasesGoForward /\ PublishedWhenRendered]_vars
    /\ [](Phase(pc) = "Aborted" => published = <<>>)
    /\ []PublishedInOrder
    /\ <>(Phase(pc) \in {"Done", "Aborted", "Fault"})

----------------------------------------------------------------------------
(* The render cache across builds *)

\* the rendering of the change list the latest build() fetched
RenderingOfLatestFetch == builder_parse_changelog(changelog_file_type, change_list)

\* C27: the per-format render cache does not outlive a build: after any
\* sequence of build() calls on a builder, the string the latest build()
\* returned is the rendering of the change list fetched by that same call,
\* never a cached rendering of the change list of an earlier build.
C27_CacheEndsWithBuild ==
    (impl = "builders" /\ pc = "built") => rendered = RenderingOfLatestFetch

\* C27 for the first build() of a builder, whose cache is empty
C27_FirstBuildRendersItsFetch ==
    (impl = "builders" /\ pc = "built" /\ builds = 1)
        => rendered = RenderingOfLatestFetch

\* a later build() returns what the first one stored
C27_LaterBuildReturnsCached ==
    (impl = "builders" /\ pc = "built" /\ builds > 1)
        => rendered = prev_call.output

----------------------------------------------------------------------------
(* Configurations constructed one after another *)

\* the valid rules of a configuration file, in its order
OwnValidRules(file) ==
    IF file.kind # "loaded" THEN <<>>
    ELSE IF file.data.t # "dict" THEN <<>>
    ELSE IF "group_config" \notin DOMAIN file.data.v THEN <<>>
    ELSE IF file.data.v["group_config"].t # "list" THEN <<>>
    ELSE SelectSeq(file.data.v["group_config"].v, ValidRule)

\* C28: configurations do not share mutable state: after several
\* constructions in one process, with the same or with different files,
\* the group_config of each instance holds the valid rules of its own file
\* and nothing of an earlier construction, and the default rule list is
\* still empty.
C28_NoSharedState ==
    /\ \A i \in DOMAIN instances :
          instance_group_config(instances[i]) = OwnValidRules(instances[i].file)
    /\ DEFAULT_GROUP_CONFIG = <<>>

\* C28 for config.py's Configuration alone
C28_NoSharedStateInConfiguration == impl = "builders" => C28_NoSharedState

\* src/main.py: every instance reads as all the valid rules of all the
\* files read so far
C28_RulesAccumulate ==
    impl = "main" =>
        \A i \in DOMAIN instances :
            /\ instances[i].group_config = TheDefaultList
            /\ Len(DEFAULT_GROUP_CONFIG) >= Len(OwnValidRules(instances[i].file))

\* three configurations of config.py, the second with rules of its own, the
\* third with the default
C28_ConfigurationWitness ==
    /\ impl = "builders"
    /\ Len(instances) = 3
    /\ instances[2].group_config # TheDefaultList
    /\ Len(instance_group_config(instances[2])) > 0
    /\ instances[3].group_config = TheDefaultList

----------------------------------------------------------------------------
(* The comment *)

\* the commit_changelog block of a run that was not triggered by a pull
\* request did all of its steps
PullRequestPublished ==
    /\ Invoked("file_write")
    /\ Invoked("git_checkout_new_branch")
    /\ Invoked("git_commit_push")
    /\ Invoked("create_pull_request")

\* C29: a comment is posted only when comment_changelog is true, the event
\* is a pull request and a token is available; a run on any other event that
\* comes to its comment step with comment_changelog true reports an error
\* and posts no comment, and what its commit_changelog block published is
\* left as it was.
C29_CommentOnlyOnPullRequest ==
    /\ [](Invoked("comment")
            => comment_changelog /\ event_name = PULL_REQUEST_EVENT /\ token)
    /\ []((/\ impl = "scripts_main" /\ pc = "done"
           /\ comment_changelog /\ event_name # PULL_REQUEST_EVENT)
            => /\ "error: comment_changelog can only be used on a pull request"
                    \in reported
               /\ ~Invoked("comment")
               /\ commit_changelog => PullRequestPublished)
    /\ [][(pc = "comment" /\ event_name # PULL_REQUEST_EVENT)
            => /\ published' = published
               /\ changelog_file' = changelog_file]_vars

\* a workflow_dispatch run with both flags on went through its comment step
C29_Witness ==
    /\ impl = "scripts_main" /\ pc = "done"
    /\ comment_changelog /\ commit_changelog
    /\ event_name # PULL_REQUEST_EVENT
    /\ PullRequestPublished
    /\ "error: comment_changelog can only be used on a pull request" \in reported

----------------------------------------------------------------------------
(* The pull request title *)

\* the title fails pull_request_title_regex, or it passes, holds no match of
\* version_regex and no release version was given
TitleRejected ==
    \/ ~pull_request_title.matches
    \/ /\ pull_request_title.matches
       /\ pull_request_title.version = NoVersion
       /\ release_version = NoVersion

\* C30: on a pull_request event, if the title of the pull request does not
\* match pull_request_title_regex, or matches it but holds no version_regex
\* match while no release version was supplied, the run aborts before the
\* change source is queried and invokes no publisher operation; on any other
\* event the title is never consulted.
C30_TitleGate ==
    /\ (/\ impl = "scripts_main" /\ pc # "start"
        /\ event_name = PULL_REQUEST_EVENT /\ TitleRejected)
         => /\ pc = "aborted"
            /\ response = NoResponse
            /\ change_list = <<>>
            /\ rendered = NotRendered
            /\ published = <<>>
    /\ (impl = "scripts_main" /\ event_name # PULL_REQUEST_EVENT)
         => \A title \in PullRequestTitles, current \in {NoVersion, InputVersion} :
               run_validate(commit_changelog, comment_changelog, event_name,
                            current, title)
                 = run_validate(commit_changelog, comment_changelog,
                                event_name, current, pull_request_title)

\* a run with a publishing flag on ended on a title that matches and holds
\* no version
C30_Witness ==
    /\ impl = "scripts_main" /\ pc = "aborted"
    /\ commit_changelog
    /\ event_name = PULL_REQUEST_EVENT
    /\ pull_request_title.matches
    /\ pull_request_title.version = NoVersion
    /\ release_version = NoVersion
    /\ "error: no version number in the pull request title" \in reported

====
